---- MODULE Spec2Model ----
(***************************************************************************)
(* The stream handler of core/pkg/server/handler.go: Handler.Do receives   *)
(* the records of the inbound channel one at a time, dispatches each on    *)
(* its tag (handleRecord, handleRequest), forwards records to the writer   *)
(* (fwdChan) and answers requests on the outbound channel (outChan).       *)
(*                                                                         *)
(* The handler is single-threaded: one action is the whole handling of one *)
(* record, the debouncer tick of handleRecord included.  The operators     *)
(* that model handler methods take the handler's state as a record s and   *)
(* return the state the method leaves behind.                              *)
(***************************************************************************)
EXTENDS Integers, Sequences, FiniteSets, TLC

VARIABLES
    inChan,          \* records sent on the inbound channel and not yet received
    inClosed,        \* the producer has closed the inbound channel
    pc,              \* position of Handler.Do: "run", "done" or "panicked"
    handled,         \* history: the records Do has received, as the handler left them
    now,             \* wall clock, seconds
    settings,        \* Handler.settings (read-only)
    fwdChan,         \* everything sent on Handler.fwdChan, in order
    fwdAt,           \* history: for each element of fwdChan, the index of the inbound record being handled
    outChan,         \* everything sent on Handler.outChan, in order
    outAt,           \* history: as fwdAt, for outChan
    closeLog,        \* the close() calls of Handler.Close, in order
    timer,           \* Handler.timer
    runRecord,       \* Handler.runRecord
    summaryHandler,  \* Handler.summaryHandler
    activeHistory,   \* Handler.activeHistory
    samplers,        \* Handler.samplers
    metricHandler,   \* Handler.metricHandler
    internalPrinter, \* Handler.internalPrinter
    calls            \* history: calls made on the collaborators (monitor, uploader, ...)

vars == <<inChan, inClosed, pc, handled, now, settings, fwdChan, fwdAt, outChan,
          outAt, closeLog, timer, runRecord, summaryHandler, activeHistory,
          samplers, metricHandler, internalPrinter, calls>>

----------------------------------------------------------------------------
(* Bounds of the model *)

\* records the producer sends in one run of the dispatcher specification
MaxRecords == 2
\* records the producer sends in one run of the request specification
MaxRequests == 2
\* records the producer sends in one run of the history specification
MaxHistRecords == 2
\* records the producer sends in one run of the defer specification
MaxDeferRecords == 2
\* capacity of the inbound channel
QueueCap == 1
\* number of clock ticks in one run
MaxTicks == 1
\* records the producer sends in one run of the session specification
MaxSessionRecords == 3
\* records the producer sends in one run of the sync specification
MaxSyncRecords == 3
\* records the producer sends in one run of the step specification
MaxStepRecords == 3
\* records the producer sends in one run of the metric specification
MaxMetricRecords == 3
\* records the producer sends in one run of the forwarding specification
MaxForwardRecords == 2
\* records the producer sends in one run of the sampler specification
MaxSamplerRecords == 3
\* records the producer sends in one run of the partial history specification
MaxPartialRecords == 3
\* records the producer sends in one run of the files specification
MaxFileRecords == 2
\* records the producer sends in one run of the glob specification
MaxGlobRecords == 4
\* records the producer sends in one run of the run-start specification
MaxRunRecords == 3
\* records the producer sends in one run of the exit specification
MaxExitRecords == 4

(* Program constants *)

\* 1 / summaryDebouncerRateLimit: seconds the limiter needs for one token
DebouncePeriod == 30
\* summaryDebouncerBurstSize
summaryDebouncerBurstSize == 1
\* capacity of a reservoir sampler
SamplerCapacity == 48

----------------------------------------------------------------------------
(* Data *)

Min(a, b) == IF a < b THEN a ELSE b

EmptyMap == [k \in {} |-> ""]

Put(m, k, v) == [x \in (DOMAIN m) \cup {k} |-> IF x = k THEN v ELSE m[x]]

\* Keys in the order in which the model lists the entries of a Go map.  (Go
\* iterates maps in no fixed order; the keys of a map are distinct, so nothing
\* the handler computes from such a list depends on the order.)
KeyOrder == <<"_runtime", "_step", "_timestamp", "_wandb", "loss", "acc",
              "train/loss", "train/step">>

RECURSIVE MapItemsFrom(_, _)
MapItemsFrom(m, i) ==
    IF i > Len(KeyOrder) THEN <<>>
    ELSE IF KeyOrder[i] \in DOMAIN m
         THEN <<[key |-> KeyOrder[i], value_json |-> m[KeyOrder[i]]]>> \o MapItemsFrom(m, i + 1)
         ELSE MapItemsFrom(m, i + 1)

\* the entries of a map as a list of items
MapItems(m) == MapItemsFrom(m, 1)

Item(k, v) == [key |-> k, value_json |-> v]

\* service.Control; present = FALSE is the nil control block
NoControl == [present |-> FALSE, always_send |-> FALSE, local |-> FALSE, req_resp |-> FALSE]

ReqRespControl == [present |-> TRUE, always_send |-> FALSE, local |-> FALSE, req_resp |-> TRUE]

\* service.MetricRecord
NoMetric == [name |-> "", glob_name |-> "", step_metric |-> "", step_sync |-> FALSE]

\* service.RunRecord
NoRun == [start_time |-> 0, starting_step |-> 0]

\* service.Record: kind is the record tag, req the request tag of a Request
\* record; the other fields are the payload of the kinds that have one.
BaseRecord ==
    [kind |-> "", req |-> "", uuid |-> 0, control |-> NoControl,
     item |-> <<>>, hasStep |-> FALSE, step |-> 0,
     hasAction |-> FALSE, flush |-> FALSE,
     state |-> 0, runtime |-> 0, metric |-> NoMetric, run |-> NoRun,
     hasFiles |-> FALSE, files |-> <<>>, cancel_slot |-> ""]

Rec(kind) == [BaseRecord EXCEPT !.kind = kind]

Req(req) == [BaseRecord EXCEPT !.kind = "Request", !.req = req]

\* service.DeferRequest_DeferState
BEGIN == 0
FLUSH_RUN == 1
FLUSH_STATS == 2
FLUSH_PARTIAL_HISTORY == 3
FLUSH_TB == 4
FLUSH_SUM == 5
FLUSH_DEBOUNCER == 6
FLUSH_OUTPUT == 7
FLUSH_JOB == 8
FLUSH_DIR == 9
FLUSH_FP == 10
JOIN_FP == 11
FLUSH_FS == 12
FLUSH_FINAL == 13
END == 14

----------------------------------------------------------------------------
(* Conversions *)

\* largest number a value_json of the model denotes
MaxNum == 12

\* strconv.ParseFloat / json.Unmarshal into a float: the value_json texts of the
\* model that denote a number are the decimal integers ("7") and the "%f"
\* texts ("7.000000"); anything else (a JSON string, a JSON object) is an error.
IsNumber(v) == \E n \in (0 - MaxNum)..MaxNum : v = ToString(n) \/ v = ToString(n) \o ".000000"

ParseFloat(v) == CHOOSE n \in (0 - MaxNum)..MaxNum : v = ToString(n) \/ v = ToString(n) \o ".000000"

\* json.Unmarshal of a value_json into a float32: a JSON number is stored, the
\* JSON null is accepted without an error and leaves the zero value, any
\* other text is an error
UnmarshalsAsFloat(v) == IsNumber(v) \/ v = "null"

UnmarshalFloat(v) == IF v = "null" THEN 0 ELSE ParseFloat(v)

\* fmt.Sprintf("%f", x) for a whole number x
FormatFloat(x) == ToString(x) \o ".000000"

\* fmt.Sprintf("%d", n)
FormatInt(n) == ToString(n)

\* fmt.Sprintf(`{"runtime": %d}`, runtime)
RuntimeJson(runtime) == "{\"runtime\": " \o ToString(runtime) \o "}"

\* strings.HasPrefix(key, "_")
HasUnderscorePrefix(key) == key \in {"_runtime", "_step", "_timestamp", "_wandb"}

----------------------------------------------------------------------------
(* The handler's state as one record: what the methods below read and write. *)

H == [fwdChan |-> fwdChan, fwdAt |-> fwdAt, outChan |-> outChan, outAt |-> outAt,
      timer |-> timer, runRecord |-> runRecord, summaryHandler |-> summaryHandler,
      activeHistory |-> activeHistory, samplers |-> samplers,
      metricHandler |-> metricHandler, internalPrinter |-> internalPrinter,
      calls |-> calls, settings |-> settings, now |-> now,
      cur |-> Len(handled) + 1, rec |-> BaseRecord, panicked |-> FALSE]

\* a call on a collaborator, with the number of records forwarded before it;
\* data is the map written, for a file write
CallWith(s, name, data) ==
    [s EXCEPT !.calls = Append(@, [name |-> name, at |-> s.cur,
                                   fwdLen |-> Len(s.fwdChan), data |-> data])]

Call(s, name) == CallWith(s, name, EmptyMap)

----------------------------------------------------------------------------
(* Timer *)

NewTimer == [isStarted |-> FALSE, isPaused |-> FALSE, accumulated |-> 0,
             resumeTime |-> 0, startTime |-> 0]

TimerStart(s, startTime) ==
    [s EXCEPT !.timer = [isStarted |-> TRUE, isPaused |-> FALSE, accumulated |-> 0,
                         resumeTime |-> s.now, startTime |-> startTime]]

TimerPause(s) ==
    IF s.timer.isStarted /\ ~s.timer.isPaused
    THEN [s EXCEPT !.timer.accumulated = @ + (s.now - s.timer.resumeTime),
                   !.timer.isPaused = TRUE]
    ELSE s

TimerResume(s) ==
    IF s.timer.isStarted /\ s.timer.isPaused
    THEN [s EXCEPT !.timer.resumeTime = s.now, !.timer.isPaused = FALSE]
    ELSE s

\* Timer.Elapsed, in whole seconds
TimerElapsed(s) ==
    IF ~s.timer.isStarted THEN 0
    ELSE IF s.timer.isPaused THEN s.timer.accumulated
    ELSE s.timer.accumulated + (s.now - s.timer.resumeTime)

\* Timer.GetStartTimeMicro: the start time in seconds
GetStartTimeMicro(s) == s.timer.startTime

----------------------------------------------------------------------------
(* Channels *)

\* Handler.fwdRecord
fwdRecord_reorder(s, record) ==
    [s EXCEPT !.fwdChan = <<record>> \o @, !.fwdAt = <<s.cur>> \o @]

fwdRecord(s, record) ==
    [s EXCEPT !.fwdChan = Append(@, record), !.fwdAt = Append(@, s.cur)]

\* Handler.fwdRecordWithControl with the options of its callers: each option
\* sets one flag of the control block, created when the record has none
SetAlwaysSend(control, b) == [control EXCEPT !.present = TRUE, !.always_send = b]

SetLocal(control, b) == [control EXCEPT !.present = TRUE, !.local = b]

fwdRecordWithControl_noOptions(s, record, control) == fwdRecord(s, record)

fwdRecordWithControl(s, record, control) ==
    fwdRecord(s, [record EXCEPT !.control = control])

\* service.Result
Result(response, record) ==
    [response |-> response, control |-> record.control, uuid |-> record.uuid]

\* service.Response: the response type and what the claims read of its payload
Response(type) == [type |-> type, done |-> FALSE, run |-> NoRun, hasRun |-> FALSE, item |-> <<>>]

EmptyResponse == Response("")

\* Handler.respond
respond_twice(s, record, response) ==
    [s EXCEPT !.outChan = @ \o <<Result(response, record), Result(response, record)>>,
              !.outAt = @ \o <<s.cur, s.cur>>]

respond(s, record, response) ==
    [s EXCEPT !.outChan = Append(@, Result(response, record)),
              !.outAt = Append(@, s.cur)]

----------------------------------------------------------------------------
(* Summary handler: consolidated summary, summary delta, debouncer *)

NewSummaryHandler ==
    [consolidatedSummary |-> EmptyMap, summaryDelta |-> EmptyMap,
     tokens |-> summaryDebouncerBurstSize]

\* a fold in which an item whose value the map already holds resets the value
RECURSIVE Consolidate_resets(_, _)
Consolidate_resets(m, items) ==
    IF items = <<>> THEN m
    ELSE Consolidate_resets(
             Put(m, Head(items).key,
                 IF Head(items).key \in DOMAIN m /\ m[Head(items).key] = Head(items).value_json
                 THEN "" ELSE Head(items).value_json),
             Tail(items))

\* the map that corelib.ConsolidateSummaryItems leaves in its first argument:
\* every item, in order, overwrites the value of its key
RECURSIVE Consolidate(_, _)
Consolidate(m, items) ==
    IF items = <<>> THEN m
    ELSE Consolidate(Put(m, Head(items).key, Head(items).value_json), Tail(items))

\* corelib.ConsolidateSummaryItems on the handler's consolidated summary; the
\* summary record it returns holds the same items
ConsolidateSummaryItems(s, items) ==
    [s EXCEPT !.summaryHandler.consolidatedSummary = Consolidate(@, items)]

\* SummaryHandler.updateSummaryDelta
updateSummaryDelta(s, items) ==
    [s EXCEPT !.summaryHandler.summaryDelta = Consolidate(@, items)]

\* Handler.fwdSummary without the reset of the delta
fwdSummary_keepsDelta(s) ==
    fwdRecord(s, [Rec("Summary") EXCEPT !.item = MapItems(s.summaryHandler.summaryDelta)])

\* Handler.fwdSummary
fwdSummary(s) ==
    LET record == [Rec("Summary") EXCEPT !.item = MapItems(s.summaryHandler.summaryDelta)]
        s1 == fwdRecord(s, record)
    IN  [s1 EXCEPT !.summaryHandler.summaryDelta = EmptyMap]

\* SummaryHandler.Debounce(h.fwdSummary): run the action when the rate limiter
\* has a token
Debounce(s) ==
    IF s.summaryHandler.tokens >= 1
    THEN fwdSummary([s EXCEPT !.summaryHandler.tokens = @ - 1])
    ELSE s

\* SummaryHandler.Flush(h.fwdSummary): run the action now
SummaryFlush(s) == fwdSummary(s)

----------------------------------------------------------------------------
(* Metric handler *)

NewMetricHandler == [definedMetrics |-> [k \in {} |-> NoMetric], globMetrics |-> <<>>]

\* the glob patterns of the model and the keys each matches
GlobMatch(pattern, key) ==
    CASE pattern = "train/*" -> key \in {"train/loss", "train/step"}
      [] pattern = "train/l*" -> key = "train/loss"
      [] pattern = "_*" -> key \in {"_runtime", "_step", "_timestamp", "_wandb"}
      [] pattern = "*" -> key \in {"loss", "acc"}
      [] OTHER -> FALSE

\* addMetric(metric, key, &definedMetrics)
AddDefinedMetric(s, key, metric) ==
    [s EXCEPT !.metricHandler.definedMetrics = Put(@, key, metric)]

\* addMetric(metric, key, &globMetrics): a new glob goes last
AddGlobMetric(s, key, metric) ==
    LET globs == s.metricHandler.globMetrics
    IN  IF \E i \in 1..Len(globs) : globs[i].glob_name = key
        THEN [s EXCEPT !.metricHandler.globMetrics =
                  [i \in 1..Len(globs) |-> IF globs[i].glob_name = key THEN metric ELSE globs[i]]]
        ELSE [s EXCEPT !.metricHandler.globMetrics = Append(@, metric)]

\* handleStepMetric without the test for a step metric that is already defined
handleStepMetric_always(s, key) ==
    IF key = "" THEN s
    ELSE LET metric == [NoMetric EXCEPT !.name = key]
             stepRecord == [Rec("Metric") EXCEPT !.metric = metric,
                                                 !.control = [NoControl EXCEPT !.present = TRUE, !.local = TRUE]]
         IN  fwdRecord(AddDefinedMetric(s, key, metric), stepRecord)

\* Handler.handleStepMetric
handleStepMetric(s, key) ==
    IF key = "" THEN s
    ELSE IF key \in DOMAIN s.metricHandler.definedMetrics THEN s
    ELSE LET metric == [NoMetric EXCEPT !.name = key]
             stepRecord == [Rec("Metric") EXCEPT !.metric = metric,
                                                 !.control = [NoControl EXCEPT !.present = TRUE, !.local = TRUE]]
         IN  fwdRecord(AddDefinedMetric(s, key, metric), stepRecord)

\* Handler.handleMetric with a default case that forwards the record
handleMetric_forwardsInvalid(s, record, metric) ==
    CASE metric.glob_name # "" ->
            fwdRecord(AddGlobMetric(s, metric.glob_name, metric), record)
      [] metric.glob_name = "" /\ metric.name # "" ->
            fwdRecord(handleStepMetric(AddDefinedMetric(s, metric.name, metric), metric.step_metric), record)
      [] OTHER -> fwdRecord(s, record)

\* Handler.handleMetric
handleMetric(s, record, metric) ==
    CASE metric.glob_name # "" ->
            fwdRecord(AddGlobMetric(s, metric.glob_name, metric), record)
      [] metric.glob_name = "" /\ metric.name # "" ->
            fwdRecord(handleStepMetric(AddDefinedMetric(s, metric.name, metric), metric.step_metric), record)
      [] OTHER -> s

\* MetricHandler.createMatchingGlobMetric: the metric made from the first glob
\* that matches the key, if any
HasMatchingGlob(s, key) ==
    \E i \in 1..Len(s.metricHandler.globMetrics) :
        GlobMatch(s.metricHandler.globMetrics[i].glob_name, key)

createMatchingGlobMetric(s, key) ==
    LET globs == s.metricHandler.globMetrics
        first == CHOOSE i \in 1..Len(globs) :
                    /\ GlobMatch(globs[i].glob_name, key)
                    /\ \A j \in 1..(i - 1) : ~GlobMatch(globs[j].glob_name, key)
    IN  [globs[first] EXCEPT !.name = key, !.glob_name = ""]

\* matchHistoryItemMetric without the test for an internal key
matchHistoryItemMetric_internalToo(s, item) ==
    IF item.key \in DOMAIN s.metricHandler.definedMetrics
    THEN [s |-> s, metric |-> s.metricHandler.definedMetrics[item.key]]
    ELSE IF HasMatchingGlob(s, item.key)
    THEN LET metric == createMatchingGlobMetric(s, item.key)
             record == [Rec("Metric") EXCEPT !.metric = metric,
                                             !.control = [NoControl EXCEPT !.present = TRUE, !.local = TRUE]]
         IN  [s |-> handleMetric(s, record, metric), metric |-> metric]
    ELSE [s |-> s, metric |-> NoMetric]

\* Handler.matchHistoryItemMetric: the state it leaves and the metric it
\* returns (NoMetric for nil)
matchHistoryItemMetric(s, item) ==
    IF HasUnderscorePrefix(item.key) THEN [s |-> s, metric |-> NoMetric]
    ELSE IF item.key \in DOMAIN s.metricHandler.definedMetrics
    THEN [s |-> s, metric |-> s.metricHandler.definedMetrics[item.key]]
    ELSE IF HasMatchingGlob(s, item.key)
    THEN LET metric == createMatchingGlobMetric(s, item.key)
             record == [Rec("Metric") EXCEPT !.metric = metric,
                                             !.control = [NoControl EXCEPT !.present = TRUE, !.local = TRUE]]
         IN  [s |-> handleMetric(s, record, metric), metric |-> metric]
    ELSE [s |-> s, metric |-> NoMetric]

----------------------------------------------------------------------------
(* Active history *)

NilActiveHistory == [exists |-> FALSE, flush |-> "nil", step |-> 0, values |-> EmptyMap]

\* NewActiveHistory(WithStep(step), WithFlush(flush)); flush names the callback:
\* "sync" (handlePartialHistorySync), "async" (handlePartialHistoryAsync), "nil"
NewActiveHistory(step, flush) ==
    [exists |-> TRUE, flush |-> flush, step |-> step, values |-> EmptyMap]

\* ActiveHistory.UpdateValues
UpdateValues(s, items) ==
    [s EXCEPT !.activeHistory.values = Consolidate(@, items)]

\* ActiveHistory.UpdateStep
UpdateStep(s, step) == [s EXCEPT !.activeHistory.step = step]

\* Handler.imputeStepMetric, after the metric of the item has been resolved
\* (m: the state matchHistoryItemMetric leaves and the metric it returns): the
\* state it leaves and the items it returns (none for nil)
imputeForMetric(m) ==
    IF ~(m.metric.step_sync /\ m.metric.step_metric # "") THEN [s |-> m.s, step |-> <<>>]
    ELSE IF m.metric.step_metric \in DOMAIN m.s.activeHistory.values
    THEN [s |-> m.s, step |-> <<>>]
    ELSE IF m.metric.step_metric \in DOMAIN m.s.summaryHandler.consolidatedSummary
    THEN [s |-> UpdateValues(m.s, <<Item(m.metric.step_metric,
                    m.s.summaryHandler.consolidatedSummary[m.metric.step_metric])>>),
          step |-> <<Item(m.metric.step_metric,
                    m.s.summaryHandler.consolidatedSummary[m.metric.step_metric])>>]
    ELSE [s |-> m.s, step |-> <<>>]

\* Handler.imputeStepMetric
imputeStepMetric(s, item) == imputeForMetric(matchHistoryItemMetric(s, item))

\* the loop of flushHistory over the items the record has when the loop
\* starts: the state it leaves and the items it appends to the record
RECURSIVE imputeAll(_, _)
imputePrepend(step, rest) == [s |-> rest.s, added |-> step \o rest.added]

imputeRest(one, items) == imputePrepend(one.step, imputeAll(one.s, items))

imputeAll(s, items) ==
    IF items = <<>> THEN [s |-> s, added |-> <<>>]
    ELSE imputeRest(imputeStepMetric(s, Head(items)), Tail(items))

\* ReservoirSampler.Add below its capacity
SamplerAdd(values, v) == IF Len(values) < SamplerCapacity THEN Append(values, v) ELSE values

\* Handler.sampleHistory
RECURSIVE sampleItems(_, _)
sampleItems(byKey, items) ==
    IF items = <<>> THEN byKey
    ELSE LET item == Head(items)
         IN  IF ~UnmarshalsAsFloat(item.value_json) THEN sampleItems(byKey, Tail(items))
             ELSE LET old == IF item.key \in DOMAIN byKey THEN byKey[item.key] ELSE <<>>
                  IN  sampleItems(Put(byKey, item.key, SamplerAdd(old, UnmarshalFloat(item.value_json))),
                                  Tail(items))

sampleHistory(s, items) ==
    [s EXCEPT !.samplers = [isNil |-> FALSE, byKey |-> sampleItems(s.samplers.byKey, items)]]

\* HistoryRecord.GetStep().GetNum()
StepNum(history) == IF history.hasStep THEN history.step ELSE 0

\* flushHistory: the run time of the record, from the _timestamp item of the
\* active history
RunTime(s) ==
    IF "_timestamp" \in DOMAIN s.activeHistory.values
    THEN IF IsNumber(s.activeHistory.values["_timestamp"])
         THEN ParseFloat(s.activeHistory.values["_timestamp"]) - GetStartTimeMicro(s)
         ELSE 0
    ELSE 0

\* flushHistory: the items of the record after the internal items are appended
internalItems(s, history) ==
    IF ~s.settings.x_shared
    THEN history.item \o <<Item("_runtime", FormatFloat(RunTime(s))),
                           Item("_step", FormatInt(StepNum(history)))>>
    ELSE Append(history.item, Item("_runtime", FormatFloat(RunTime(s))))

\* flushHistory: the record is sampled and forwarded, then its items are
\* consolidated into the summary
sendHistory_noSummary(s, history, items) ==
    fwdRecord(sampleHistory(s, items),
              [Rec("History") EXCEPT !.hasStep = history.hasStep,
                                     !.step = StepNum(history),
                                     !.item = items])

sendHistory(s, history, items) ==
    updateSummaryDelta(
        ConsolidateSummaryItems(
            fwdRecord(sampleHistory(s, items),
                      [Rec("History") EXCEPT !.hasStep = history.hasStep,
                                             !.step = StepNum(history),
                                             !.item = items]),
            items),
        items)

\* flushHistory: the step metrics of the items are imputed and appended
flushImputed(imputed, history, items) ==
    sendHistory(imputed.s, history, items \o imputed.added)

\* flushHistory with the record forwarded before the metrics of its items
\* are resolved
flushItems_forwardsFirst(s, history, items) ==
    imputeAll(sendHistory(s, history, items), items).s

flushItems(s, history, items) == flushImputed(imputeAll(s, items), history, items)

\* Handler.flushHistory; history is the service.HistoryRecord: hasStep, step, item
flushHistory(s, history) ==
    IF history.item = <<>> THEN s
    ELSE flushItems(s, history, internalItems(s, history))

\* ActiveHistory.Clear
ActiveHistoryClear(s) == [s EXCEPT !.activeHistory.values = EmptyMap]

\* ActiveHistory.Flush: the callback, when there is one, gets the step and the
\* values, then the values are cleared; a nil receiver does nothing
ActiveHistoryFlush(s) ==
    IF ~s.activeHistory.exists THEN s
    ELSE IF s.activeHistory.flush = "nil" THEN ActiveHistoryClear(s)
    ELSE ActiveHistoryClear(
             flushHistory(s, [hasStep |-> s.activeHistory.flush = "sync",
                              step |-> s.activeHistory.step,
                              item |-> MapItems(s.activeHistory.values)]))

----------------------------------------------------------------------------
(* Handlers of the record kinds *)

\* the plain forwarding handlers: handleAlert, handleArtifact, handleConfig,
\* handleLinkArtifact, handleOutput, handleOutputRaw, handlePreempting,
\* handleSystemMetrics, handleTelemetry, handleUseArtifact, and of the requests
\* handleRequestStopStatus, handleRequestLogArtifact,
\* handleRequestDownloadArtifact, handleRequestNetworkStatus, handleRequestSync,
\* handleRequestSenderRead, handleRequestJobInput
handleForward(s, record) == fwdRecord(s, record)

\* Handler.handleFiles without the check for nil files
handleFiles_always(s, record) == fwdRecord(s, record)

\* Handler.handleFiles
handleFiles(s, record) == IF ~record.hasFiles THEN s ELSE fwdRecord(s, record)

\* a Files record the handler makes for files it wrote
FilesRecord(paths) == [Rec("Files") EXCEPT !.hasFiles = TRUE, !.files = paths]

\* Handler.handleFinal
handleFinal_always(s) ==
    fwdRecordWithControl(s, Rec("Final"), SetAlwaysSend(NoControl, FALSE))

handleFinal(s) ==
    IF s.settings.x_sync THEN s
    ELSE fwdRecordWithControl(s, Rec("Final"), SetAlwaysSend(NoControl, FALSE))

\* Handler.handleFooter
handleFooter(s) ==
    IF s.settings.x_sync THEN s
    ELSE fwdRecordWithControl(s, Rec("Footer"), SetAlwaysSend(NoControl, FALSE))

\* Handler.handleHeader: the control block is changed in the record itself
handleHeader(s, record) ==
    LET control == SetAlwaysSend(record.control, FALSE)
        s1 == fwdRecordWithControl(s, record, control)
    IN  [s1 EXCEPT !.rec.control = control]

\* Handler.handleRun
handleRun(s, record) ==
    LET control == SetAlwaysSend(record.control, TRUE)
        s1 == fwdRecordWithControl(s, record, control)
    IN  [s1 EXCEPT !.rec.control = control]

\* Handler.handleRequestServerInfo
handleRequestServerInfo(s, record) ==
    LET control == SetAlwaysSend(record.control, TRUE)
        s1 == fwdRecordWithControl(s, record, control)
    IN  [s1 EXCEPT !.rec.control = control]

\* Handler.handleExit: runtime and control are set in the record itself
handleExit_ignoresSync(s, record) ==
    LET s1 == TimerPause(s)
        runtime == TimerElapsed(s1)
        exit == [record EXCEPT !.runtime = runtime]
        update == <<Item("_wandb", RuntimeJson(runtime))>>
        s2 == updateSummaryDelta(ConsolidateSummaryItems(s1, update), update)
        control == SetAlwaysSend(exit.control, TRUE)
        s3 == fwdRecordWithControl(s2, exit, control)
    IN  [s3 EXCEPT !.rec = [exit EXCEPT !.control = control]]

\* handleExit without the pause of the timer
handleExit_keepsRunning(s, record) ==
    LET runtime == TimerElapsed(s)
        exit == [record EXCEPT !.runtime = runtime]
        update == <<Item("_wandb", RuntimeJson(runtime))>>
        s2 == IF ~s.settings.x_sync
              THEN updateSummaryDelta(ConsolidateSummaryItems(s, update), update)
              ELSE s
        c1 == SetAlwaysSend(exit.control, TRUE)
        control == IF s.settings.x_sync THEN SetLocal(c1, TRUE) ELSE c1
        s3 == fwdRecordWithControl(s2, exit, control)
    IN  [s3 EXCEPT !.rec = [exit EXCEPT !.control = control]]

handleExit(s, record) ==
    LET s1 == TimerPause(s)
        runtime == TimerElapsed(s1)
        exit == [record EXCEPT !.runtime = runtime]
        update == <<Item("_wandb", RuntimeJson(runtime))>>
        s2 == IF ~s.settings.x_sync
              THEN updateSummaryDelta(ConsolidateSummaryItems(s1, update), update)
              ELSE s1
        c1 == SetAlwaysSend(exit.control, TRUE)
        control == IF s.settings.x_sync THEN SetLocal(c1, TRUE) ELSE c1
        s3 == fwdRecordWithControl(s2, exit, control)
    IN  [s3 EXCEPT !.rec = [exit EXCEPT !.control = control]]

\* the update handleSummary consolidates: the record's items and the runtime
SummaryUpdate(s, update) ==
    Append(update, Item("_wandb", RuntimeJson(TimerElapsed(s))))

\* Handler.handleSummary on the update of a summary record
handleSummary(s, update) ==
    IF s.settings.x_sync THEN s
    ELSE LET items == SummaryUpdate(s, update)
         IN  updateSummaryDelta(ConsolidateSummaryItems(s, items), items)

\* Handler.handleSummary on an inbound Summary record, whose update it extends
handleSummaryRecord(s, record) ==
    LET s1 == handleSummary(s, record.item)
    IN  IF s.settings.x_sync THEN s1
        ELSE [s1 EXCEPT !.rec.item = SummaryUpdate(s, record.item)]

\* Handler.handleTBrecord
handleTBrecord(s, record) == Call(s, "tbHandler.Handle")

\* handleHistory on the accumulator that is already there, left unflushed
handleHistory_keeps(s, history) ==
    flushHistory(
        UpdateValues(
            IF s.activeHistory.exists
            THEN UpdateStep(s, StepNum(history))
            ELSE [s EXCEPT !.activeHistory = NewActiveHistory(StepNum(history), "nil")],
            history.item),
        history)

\* Handler.handleHistory
handleHistory(s, history) ==
    LET s1 == [s EXCEPT !.activeHistory =
                   NewActiveHistory(IF history.hasStep THEN history.step ELSE 0, "nil")]
        s2 == UpdateValues(s1, history.item)
        s3 == flushHistory(s2, history)
    IN  ActiveHistoryFlush(s3)

\* a dispatcher that only logs a nil or unknown tag
Panic_logsOnly(s) == s

\* the dispatcher's panic on a nil or unknown tag (CaptureFatalAndPanic)
Panic(s) == [s EXCEPT !.panicked = TRUE]

----------------------------------------------------------------------------
(* Handlers of the request kinds *)

\* Handler.handleRequestLogin
handleRequestLogin_silent(s, record) == s

handleRequestLogin(s, record) ==
    IF record.control.req_resp THEN respond(s, record, EmptyResponse) ELSE s

\* handleRequestCheckVersion, handleRequestRunStatus, handleRequestStatus,
\* handleRequestShutdown
handleRespondEmpty(s, record) == respond(s, record, EmptyResponse)

\* the requests that the handler does nothing for: Metadata, SummaryRecord,
\* TelemetryRecord, TestInject, JobInfo, Keepalive, SenderMark, StatusReport
handleNothing(s, record) == s

\* FileTransferStats.IsDone
IsDone(s) == \E i \in 1..Len(s.calls) : s.calls[i].name = "fileTransferStats.SetDone"

\* Handler.handleRequestPollExit
handleRequestPollExit_notDone(s, record) ==
    respond(s, record, Response("PollExitResponse"))

handleRequestPollExit(s, record) ==
    respond(s, record, [Response("PollExitResponse") EXCEPT !.done = IsDone(s)])

\* Handler.handleRequestAttach
handleRequestAttach_noRun(s, record) ==
    respond(s, record, Response("AttachResponse"))

handleRequestAttach(s, record) ==
    respond(s, record, [Response("AttachResponse") EXCEPT !.run = s.runRecord.run,
                                                          !.hasRun = s.runRecord.exists])

\* Handler.handleRequestGetSummary
handleRequestGetSummary(s, record) ==
    respond(s, record, [Response("GetSummaryResponse") EXCEPT
                            !.item = MapItems(s.summaryHandler.consolidatedSummary)])

\* Handler.handleRequestGetSystemMetrics
handleRequestGetSystemMetrics(s, record) ==
    respond(Call(s, "systemMonitor.GetBuffer"), record, Response("GetSystemMetricsResponse"))

\* Handler.handleRequestInternalMessages: Printer.Read takes the messages
handleRequestInternalMessages(s, record) ==
    LET s1 == respond(s, record, [Response("InternalMessagesResponse") EXCEPT
                                      !.item = s.internalPrinter])
    IN  [s1 EXCEPT !.internalPrinter = <<>>]

\* Handler.handleRequestSampledHistory
handleRequestSampledHistory(s, record) ==
    IF s.samplers.isNil THEN respond(s, record, EmptyResponse)
    ELSE respond(s, record, [Response("SampledHistoryResponse") EXCEPT
                                 !.item = MapItems(s.samplers.byKey)])

\* Handler.handleRequestCancel
handleRequestCancel(s, record) ==
    IF record.cancel_slot # "" THEN Call(s, "mailbox.Cancel") ELSE s

\* Handler.handleRequestPause
handleRequestPause(s) == Call(TimerPause(s), "systemMonitor.Stop")

\* Handler.handleRequestResume
handleRequestResume(s) == Call(TimerResume(s), "systemMonitor.Do")

\* the text handlePartialHistorySync writes to the printer
StepMessage(step, current) ==
    "steps must be monotonically increasing, received history record for a step ("
    \o ToString(step) \o ") that is less than the current step ("
    \o ToString(current) \o ") this data will be ignored"

\* RunRecord.GetStartingStep, 0 for a nil run
GetStartingStep(s) == IF s.runRecord.exists THEN s.runRecord.run.starting_step ELSE 0

\* a flush condition that takes any action for a flush
WantsFlush_anyAction(request) ==
    (~request.hasStep /\ ~request.hasAction) \/ request.hasAction

\* whether a partial history request asks for a flush
WantsFlush(request) ==
    (~request.hasStep /\ ~request.hasAction) \/ (request.hasAction /\ request.flush)

\* handlePartialHistorySync: a flush that leaves the step as it is
flushAndAdvance_body_sameStep(s) == s

\* handlePartialHistorySync: the flush that ends a step
flushAndAdvance_body(s) == UpdateStep(s, s.activeHistory.step + 1)

flushAndAdvance(s) == flushAndAdvance_body(ActiveHistoryFlush(s))

\* handlePartialHistorySync: the items are appended, then flushed if asked
appendAndFlush(s, request) ==
    IF WantsFlush(request)
    THEN flushAndAdvance(UpdateValues(s, request.item))
    ELSE UpdateValues(s, request.item)

\* handlePartialHistorySync without the branch that drops a lower step
partialHistorySyncStep_accepts(s, request) ==
    IF request.hasStep /\ request.step > s.activeHistory.step
    THEN appendAndFlush(UpdateStep(ActiveHistoryFlush(s), request.step), request)
    ELSE appendAndFlush(s, request)

\* handlePartialHistorySync with the items appended before a higher step
\* flushes the accumulator
partialHistorySyncStep_appendsFirst(s, request) ==
    IF request.hasStep /\ request.step < s.activeHistory.step
    THEN [s EXCEPT !.internalPrinter =
              Append(@, Item("warning", StepMessage(request.step, s.activeHistory.step)))]
    ELSE IF request.hasStep /\ request.step > s.activeHistory.step
    THEN appendAndFlush(UpdateStep(ActiveHistoryFlush(UpdateValues(s, request.item)),
                                   request.step),
                        request)
    ELSE appendAndFlush(s, request)

\* handlePartialHistorySync, once the active history exists
partialHistorySyncStep(s, request) ==
    IF request.hasStep /\ request.step < s.activeHistory.step
    THEN [s EXCEPT !.internalPrinter =
              Append(@, Item("warning", StepMessage(request.step, s.activeHistory.step)))]
    ELSE IF request.hasStep /\ request.step > s.activeHistory.step
    THEN appendAndFlush(UpdateStep(ActiveHistoryFlush(s), request.step), request)
    ELSE appendAndFlush(s, request)

\* Handler.handlePartialHistorySync
handlePartialHistorySync(s, request) ==
    partialHistorySyncStep(
        IF ~s.activeHistory.exists
        THEN [s EXCEPT !.activeHistory = NewActiveHistory(GetStartingStep(s), "sync")]
        ELSE s,
        request)

\* handlePartialHistoryAsync with the flush condition of the sync mode
partialHistoryAsyncStep_syncRule(s, request) ==
    IF WantsFlush(request)
    THEN ActiveHistoryFlush(UpdateValues(s, request.item))
    ELSE UpdateValues(s, request.item)

\* handlePartialHistoryAsync, once the active history exists
partialHistoryAsyncStep(s, request) ==
    IF ~request.hasAction \/ request.flush
    THEN ActiveHistoryFlush(UpdateValues(s, request.item))
    ELSE UpdateValues(s, request.item)

\* Handler.handlePartialHistoryAsync
handlePartialHistoryAsync(s, request) ==
    partialHistoryAsyncStep(
        IF ~s.activeHistory.exists
        THEN [s EXCEPT !.activeHistory = NewActiveHistory(0, "async")]
        ELSE s,
        request)

\* Handler.handleRequestPartialHistory
handleRequestPartialHistory(s, request) ==
    IF s.settings.x_shared
    THEN handlePartialHistoryAsync(s, request)
    ELSE handlePartialHistorySync(s, request)

----------------------------------------------------------------------------
(* Files, run start, defer *)

\* what the file system and git answer while one record is handled
IOAllOk == [codeOk |-> TRUE, gitAvailable |-> TRUE, headPatchOk |-> TRUE,
            upstreamOk |-> TRUE, upstreamPatchOk |-> TRUE, metaOk |-> TRUE,
            requirementsOk |-> TRUE, summaryOk |-> TRUE]

IOAllFail == [codeOk |-> FALSE, gitAvailable |-> FALSE, headPatchOk |-> FALSE,
              upstreamOk |-> FALSE, upstreamPatchOk |-> FALSE, metaOk |-> FALSE,
              requirementsOk |-> FALSE, summaryOk |-> FALSE]

\* Handler.writeAndSendSummaryFile
writeAndSendSummaryFile(s, io) ==
    IF s.settings.x_sync THEN s
    ELSE LET s1 == IF io.summaryOk
                   THEN CallWith(s, "WriteFile wandb-summary.json",
                                 s.summaryHandler.consolidatedSummary)
                   ELSE s
         IN  IF s.settings.uploader THEN Call(s1, "uploader.UploadNow wandb-summary.json")
             ELSE s1

\* the switch of Handler.handleRequestDefer: the side effect of the state
deferSideEffect_fallthrough(s, state, io) ==
    CASE state \in {FLUSH_RUN, FLUSH_STATS} -> Call(s, "systemMonitor.Stop")
      [] state = FLUSH_PARTIAL_HISTORY -> ActiveHistoryFlush(s)
      [] state = FLUSH_TB -> Call(s, "tbHandler.Close")
      [] state = FLUSH_SUM ->
            writeAndSendSummaryFile(SummaryFlush(handleSummary(s, <<>>)), io)
      [] state = FLUSH_FP ->
            IF s.settings.uploader THEN Call(s, "uploader.UploadRemaining") ELSE s
      [] state = FLUSH_FINAL -> handleFooter(handleFinal(s))
      [] state = END -> Call(s, "fileTransferStats.SetDone")
      [] OTHER -> s

\* the switch with a FLUSH_SUM case that flushes through the rate limiter
deferSideEffect_debounced(s, state, io) ==
    CASE state = FLUSH_STATS -> Call(s, "systemMonitor.Stop")
      [] state = FLUSH_PARTIAL_HISTORY -> ActiveHistoryFlush(s)
      [] state = FLUSH_TB -> Call(s, "tbHandler.Close")
      [] state = FLUSH_SUM ->
            writeAndSendSummaryFile(Debounce(handleSummary(s, <<>>)), io)
      [] state = FLUSH_FP ->
            IF s.settings.uploader THEN Call(s, "uploader.UploadRemaining") ELSE s
      [] state = FLUSH_FINAL -> handleFooter(handleFinal(s))
      [] state = END -> Call(s, "fileTransferStats.SetDone")
      [] OTHER -> s

deferSideEffect(s, state, io) ==
    CASE state = FLUSH_STATS -> Call(s, "systemMonitor.Stop")
      [] state = FLUSH_PARTIAL_HISTORY -> ActiveHistoryFlush(s)
      [] state = FLUSH_TB -> Call(s, "tbHandler.Close")
      [] state = FLUSH_SUM ->
            writeAndSendSummaryFile(SummaryFlush(handleSummary(s, <<>>)), io)
      [] state = FLUSH_FP ->
            IF s.settings.uploader THEN Call(s, "uploader.UploadRemaining") ELSE s
      [] state = FLUSH_FINAL -> handleFooter(handleFinal(s))
      [] state = END -> Call(s, "fileTransferStats.SetDone")
      [] OTHER -> s

\* Handler.handleRequestDefer: the side effect, then a clone of the record is
\* forwarded with always_send and local set
handleRequestDefer_forwardFirst(s, record, io) ==
    deferSideEffect(
        fwdRecordWithControl(s, record, SetLocal(SetAlwaysSend(record.control, TRUE), TRUE)),
        record.state, io)

handleRequestDefer(s, record, io) ==
    LET s1 == deferSideEffect(s, record.state, io)
    IN  fwdRecordWithControl(s1, record, SetLocal(SetAlwaysSend(record.control, TRUE), TRUE))

\* Handler.handleRequestPythonPackages
handleRequestPythonPackages(s, record, io) ==
    IF ~io.requirementsOk THEN s
    ELSE handleFiles(CallWith(s, "WriteFile requirements.txt", EmptyMap),
                     FilesRecord(<<"requirements.txt">>))

\* Handler.handleCodeSave
handleCodeSave(s, io) ==
    IF s.settings.program_relpath = "" THEN s
    ELSE IF ~io.codeOk THEN s
    ELSE handleFiles(s, FilesRecord(<<"code/" \o s.settings.program_relpath>>))

\* Handler.handlePatchSave
handlePatchSave(s, io) ==
    IF s.settings.disable_git THEN s
    ELSE IF ~io.gitAvailable THEN s
    ELSE LET head == IF io.headPatchOk THEN <<"diff.patch">> ELSE <<>>
             upstream == IF io.upstreamOk /\ io.upstreamPatchOk
                         THEN <<"diff_sha.patch">> ELSE <<>>
             files == head \o upstream
         IN  IF files = <<>> THEN s ELSE handleFiles(s, FilesRecord(files))

\* Handler.handleMetadata
handleMetadata(s, io) ==
    IF s.settings.x_disable_meta THEN s
    ELSE IF ~io.metaOk THEN s
    ELSE handleFiles(CallWith(s, "WriteFile wandb-metadata.json", EmptyMap),
                     FilesRecord(<<"wandb-metadata.json">>))

\* Handler.handleRequestRunStart
handleRequestRunStart(s, record, io) ==
    LET s1 == TimerStart(s, record.run.start_time)
        s2 == [s1 EXCEPT !.runRecord = [exists |-> TRUE, run |-> record.run]]
        s3 == fwdRecord(s2, record)
        s4 == IF ~s.settings.x_disable_stats THEN Call(s3, "systemMonitor.Do") ELSE s3
        s5 == IF s.settings.save_code THEN handlePatchSave(handleCodeSave(s4, io), io) ELSE s4
        s6 == IF ~s.settings.x_disable_stats THEN Call(s5, "systemMonitor.Probe") ELSE s5
        s7 == handleMetadata(s6, io)
    IN  respond(s7, record, EmptyResponse)

----------------------------------------------------------------------------
(* Handler.Do *)

\* the settings of the model: sync mode, shared mode, and the rest as the
\* stream sets them by default; uploader says whether the handler was given a
\* run-files uploader (runfilesUploaderOrNil)
DefaultSettings ==
    [x_sync |-> FALSE, x_shared |-> FALSE, x_disable_stats |-> FALSE,
     x_disable_meta |-> FALSE, save_code |-> TRUE, disable_git |-> FALSE,
     program_relpath |-> "train.py", uploader |-> TRUE]

\* the state after NewHandler, before Do has received anything
InitWith(settingsSet) ==
    /\ inChan = <<>>
    /\ inClosed = FALSE
    /\ pc = "run"
    /\ handled = <<>>
    /\ now = 0
    /\ settings \in settingsSet
    /\ fwdChan = <<>>
    /\ fwdAt = <<>>
    /\ outChan = <<>>
    /\ outAt = <<>>
    /\ closeLog = <<>>
    /\ timer = NewTimer
    /\ runRecord = [exists |-> FALSE, run |-> NoRun]
    /\ summaryHandler = NewSummaryHandler
    /\ activeHistory = NilActiveHistory
    /\ samplers = [isNil |-> TRUE, byKey |-> [k \in {} |-> <<>>]]
    /\ metricHandler = NewMetricHandler
    /\ internalPrinter = <<>>
    /\ calls = <<>>

\* the producer sends a record of the set on the inbound channel; the uuid of
\* a record is its number in the stream
Send(records, max) ==
    /\ ~inClosed
    /\ Len(inChan) < QueueCap
    /\ Len(handled) + Len(inChan) < max
    /\ \E r \in records :
          inChan' = Append(inChan, [r EXCEPT !.uuid = Len(handled) + Len(inChan) + 1])
    /\ UNCHANGED <<inClosed, pc, handled, now, settings, fwdChan, fwdAt, outChan, outAt,
                   closeLog, timer, runRecord, summaryHandler, activeHistory, samplers,
                   metricHandler, internalPrinter, calls>>

\* the producer closes the inbound channel
CloseIn ==
    /\ ~inClosed
    /\ inClosed' = TRUE
    /\ UNCHANGED <<inChan, pc, handled, now, settings, fwdChan, fwdAt, outChan, outAt,
                   closeLog, timer, runRecord, summaryHandler, activeHistory, samplers,
                   metricHandler, internalPrinter, calls>>

\* time passes: the rate limiter of the summary debouncer earns a token
Tick ==
    /\ now < MaxTicks * DebouncePeriod
    /\ now' = now + DebouncePeriod
    /\ summaryHandler' = [summaryHandler EXCEPT
                             !.tokens = Min(@ + 1, summaryDebouncerBurstSize)]
    /\ UNCHANGED <<inChan, inClosed, pc, handled, settings, fwdChan, fwdAt, outChan, outAt,
                   closeLog, timer, runRecord, activeHistory, samplers,
                   metricHandler, internalPrinter, calls>>

\* Do receives the next record: the loop is running and the channel holds one
Receives(kind, req) ==
    /\ pc = "run"
    /\ inChan # <<>>
    /\ Head(inChan).kind = kind
    /\ Head(inChan).req = req

\* the handler state at the start of handleRecord, after the debouncer tick
Dispatched == Debounce([H EXCEPT !.rec = Head(inChan)])

\* the state one handling of a record leaves
Commit(s) ==
    /\ inChan' = Tail(inChan)
    /\ handled' = Append(handled, s.rec)
    /\ pc' = IF s.panicked THEN "panicked" ELSE "run"
    /\ fwdChan' = s.fwdChan
    /\ fwdAt' = s.fwdAt
    /\ outChan' = s.outChan
    /\ outAt' = s.outAt
    /\ timer' = s.timer
    /\ runRecord' = s.runRecord
    /\ summaryHandler' = s.summaryHandler
    /\ activeHistory' = s.activeHistory
    /\ samplers' = s.samplers
    /\ metricHandler' = s.metricHandler
    /\ internalPrinter' = s.internalPrinter
    /\ calls' = s.calls
    /\ UNCHANGED <<inClosed, now, settings, closeLog>>

\* Handler.Close, when the loop of Do ends: the inbound channel is closed and empty
Close_fwdFirst == <<"fwdChan", "outChan">>

Close == <<"outChan", "fwdChan">>

DoClose ==
    /\ pc = "run"
    /\ inClosed
    /\ inChan = <<>>
    /\ closeLog' = closeLog \o Close
    /\ pc' = "done"
    /\ UNCHANGED <<inChan, inClosed, handled, now, settings, fwdChan, fwdAt, outChan, outAt,
                   timer, runRecord, summaryHandler, activeHistory, samplers,
                   metricHandler, internalPrinter, calls>>

----------------------------------------------------------------------------
(* handleRecord: one action for each handler its switch calls; the cases whose *)
(* handlers do the same share an action                                     *)

IOOutcomes == {IOAllOk, IOAllFail}

\* the record tags whose handler only forwards the record: handleAlert,
\* handleArtifact, handleConfig, handleLinkArtifact, handleOutput,
\* handleOutputRaw, handlePreempting, handleSystemMetrics, handleTelemetry,
\* handleUseArtifact
ForwardKinds ==
    {"Alert", "Artifact", "Config", "LinkArtifact", "Output", "OutputRaw",
     "Preempting", "Stats", "Telemetry", "UseArtifact"}

HandleForward ==
    \E kind \in ForwardKinds :
        Receives(kind, "") /\ Commit(handleForward(Dispatched, Head(inChan)))

HandleExit == Receives("Exit", "") /\ Commit(handleExit(Dispatched, Head(inChan)))

HandleFiles == Receives("Files", "") /\ Commit(handleFiles(Dispatched, Head(inChan)))

HandleFinal == Receives("Final", "") /\ Commit(handleFinal(Dispatched))

HandleFooter == Receives("Footer", "") /\ Commit(handleFooter(Dispatched))

HandleHeader == Receives("Header", "") /\ Commit(handleHeader(Dispatched, Head(inChan)))

HandleHistory == Receives("History", "") /\ Commit(handleHistory(Dispatched, Head(inChan)))

HandleMetric ==
    Receives("Metric", "") /\ Commit(handleMetric(Dispatched, Head(inChan), Head(inChan).metric))

HandleRun == Receives("Run", "") /\ Commit(handleRun(Dispatched, Head(inChan)))

HandleSummary == Receives("Summary", "") /\ Commit(handleSummaryRecord(Dispatched, Head(inChan)))

HandleTBrecord == Receives("Tbrecord", "") /\ Commit(handleTBrecord(Dispatched, Head(inChan)))

\* case nil and default: the record has no tag the handler knows
HandleNilRecord == Receives("nil", "") /\ Commit(Panic(Dispatched))

(* handleRequest: one action for each handler its switch calls; the cases  *)
(* whose handlers do the same share an action                              *)


HandleRequestLogin == Receives("Request", "Login") /\ Commit(handleRequestLogin(Dispatched, Head(inChan)))

\* the request tags whose handler only answers with an empty response
RespondEmptyRequests == {"CheckVersion", "RunStatus", "Status", "Shutdown"}

HandleRequestRespondEmpty ==
    \E req \in RespondEmptyRequests :
        Receives("Request", req) /\ Commit(handleRespondEmpty(Dispatched, Head(inChan)))

\* the request tags the handler does nothing for
NothingRequests ==
    {"Metadata", "SummaryRecord", "TelemetryRecord", "TestInject", "JobInfo",
     "Keepalive", "SenderMark", "StatusReport"}

HandleRequestNothing ==
    \E req \in NothingRequests :
        Receives("Request", req) /\ Commit(handleNothing(Dispatched, Head(inChan)))

\* the request tags whose handler only forwards the record
ForwardRequests ==
    {"StopStatus", "LogArtifact", "DownloadArtifact", "NetworkStatus", "Sync",
     "SenderRead", "JobInput"}

HandleRequestForward ==
    \E req \in ForwardRequests :
        Receives("Request", req) /\ Commit(handleForward(Dispatched, Head(inChan)))

HandleRequestServerInfo == Receives("Request", "ServerInfo") /\ Commit(handleRequestServerInfo(Dispatched, Head(inChan)))

HandleRequestPollExit == Receives("Request", "PollExit") /\ Commit(handleRequestPollExit(Dispatched, Head(inChan)))

HandleRequestAttach == Receives("Request", "Attach") /\ Commit(handleRequestAttach(Dispatched, Head(inChan)))

HandleRequestGetSummary == Receives("Request", "GetSummary") /\ Commit(handleRequestGetSummary(Dispatched, Head(inChan)))

HandleRequestGetSystemMetrics == Receives("Request", "GetSystemMetrics") /\ Commit(handleRequestGetSystemMetrics(Dispatched, Head(inChan)))

HandleRequestInternalMessages == Receives("Request", "InternalMessages") /\ Commit(handleRequestInternalMessages(Dispatched, Head(inChan)))

HandleRequestSampledHistory == Receives("Request", "SampledHistory") /\ Commit(handleRequestSampledHistory(Dispatched, Head(inChan)))

HandleRequestCancel == Receives("Request", "Cancel") /\ Commit(handleRequestCancel(Dispatched, Head(inChan)))

HandleRequestPartialHistory == Receives("Request", "PartialHistory") /\ Commit(handleRequestPartialHistory(Dispatched, Head(inChan)))

HandleRequestPause == Receives("Request", "Pause") /\ Commit(handleRequestPause(Dispatched))

HandleRequestResume == Receives("Request", "Resume") /\ Commit(handleRequestResume(Dispatched))

HandleRequestDefer ==
    \E io \in IOOutcomes :
        Receives("Request", "Defer") /\ Commit(handleRequestDefer(Dispatched, Head(inChan), io))

HandleRequestRunStart ==
    \E io \in IOOutcomes :
        Receives("Request", "RunStart") /\ Commit(handleRequestRunStart(Dispatched, Head(inChan), io))

HandleRequestPythonPackages ==
    \E io \in IOOutcomes :
        Receives("Request", "PythonPackages") /\ Commit(handleRequestPythonPackages(Dispatched, Head(inChan), io))

\* case nil and default: the request has no tag the handler knows
HandleNilRequest == Receives("Request", "nil") /\ Commit(Panic(Dispatched))

----------------------------------------------------------------------------
(* The records the producer sends *)

\* the request tags of handleRequest
RequestKinds ==
    RespondEmptyRequests \cup NothingRequests \cup ForwardRequests
        \cup {"Login", "ServerInfo", "PollExit", "Attach", "GetSummary",
              "GetSystemMetrics", "InternalMessages", "SampledHistory", "Cancel",
              "PartialHistory", "Pause", "Resume", "Defer", "RunStart",
              "PythonPackages"}

\* a partial history request
PartialHistory(items, hasStep, step, hasAction, flush) ==
    [Req("PartialHistory") EXCEPT !.item = items, !.hasStep = hasStep, !.step = step,
                                  !.hasAction = hasAction, !.flush = flush]

\* a standalone history record
History(items, step) == [Rec("History") EXCEPT !.item = items, !.hasStep = TRUE, !.step = step]

Defer(state) == [Req("Defer") EXCEPT !.state = state]

WithReqResp(r) == [r EXCEPT !.control = ReqRespControl]

----------------------------------------------------------------------------
(* Specification of the dispatcher: Do, every record tag, some requests *)

DoRecords ==
    {Rec(k) : k \in {"Alert", "Stats", "Header", "Run", "Final", "Footer", "Tbrecord"}}
    \cup {Rec("nil"), Req("nil"), Rec("Exit"),
          [Rec("Files") EXCEPT !.hasFiles = TRUE, !.files = <<"a.txt">>],
          History(<<Item("loss", "1")>>, 1),
          [Rec("Metric") EXCEPT !.metric = [NoMetric EXCEPT !.name = "loss"]],
          [Rec("Summary") EXCEPT !.item = <<Item("acc", "2")>>],
          WithReqResp(Req("Status")),
          WithReqResp([Req("RunStart") EXCEPT !.run = [start_time |-> 0, starting_step |-> 0]]),
          PartialHistory(<<Item("loss", "2")>>, FALSE, 0, FALSE, FALSE),
          Defer(FLUSH_FINAL)}

DoSettings == {DefaultSettings, [DefaultSettings EXCEPT !.x_sync = TRUE]}

Init == InitWith(DoSettings)

Next ==
    \/ Send(DoRecords, MaxRecords)
    \/ CloseIn
    \/ Tick
    \/ DoClose
    \/ HandleForward
    \/ HandleExit
    \/ HandleFiles
    \/ HandleFinal
    \/ HandleFooter
    \/ HandleHeader
    \/ HandleHistory
    \/ HandleMetric
    \/ HandleRun
    \/ HandleSummary
    \/ HandleTBrecord
    \/ HandleNilRecord
    \/ HandleRequestRespondEmpty
    \/ HandleRequestRunStart
    \/ HandleRequestPartialHistory
    \/ HandleRequestDefer
    \/ HandleNilRequest

Spec == Init /\ [][Next]_vars

----------------------------------------------------------------------------
(* Claims about Do and the channels, checked under Spec *)

\* C1, as stated: in every run of Do, however it ends, the outbound and the
\* forward channel have each been closed exactly once, the outbound channel
\* first.  (Refuted by a run that a record with a nil tag aborts.)
C1_ClosedInEveryRun == pc # "run" => closeLog = <<"outChan", "fwdChan">>

\* C1, amended: the channels are closed at most once each and the outbound
\* channel first; they are closed only when the inbound channel is closed and
\* every record sent on it has been handled; a run of Do that returns has
\* closed both exactly once, a run aborted by a panic has closed neither.
C1_CloseOnceAfterInbound ==
    /\ closeLog \in {<<>>, <<"outChan", "fwdChan">>}
    /\ closeLog # <<>> => inClosed /\ inChan = <<>> /\ pc = "done"
    /\ pc = "done" => closeLog = <<"outChan", "fwdChan">>
    /\ pc = "panicked" => closeLog = <<>>

\* a run that handled two records and returned
C1_Witness == pc = "done" /\ Len(handled) >= 2 /\ Len(closeLog) = 2

\* C2: records are forwarded, and requests answered, in the order in which
\* the inbound records that cause them were received: along each channel the
\* index of the causing inbound record never decreases, and an inbound record
\* that is itself forwarded or answered is so while it is being handled.
C2_OrderPreserved ==
    /\ \A i, j \in 1..Len(fwdChan) : i < j => fwdAt[i] <= fwdAt[j]
    /\ \A i, j \in 1..Len(outChan) : i < j => outAt[i] <= outAt[j]
    /\ \A i \in 1..Len(fwdChan) : fwdChan[i].uuid # 0 => fwdChan[i].uuid = fwdAt[i]
    /\ \A i \in 1..Len(outChan) : outChan[i].uuid = outAt[i]

\* two inbound records that were both forwarded and both answered
C2_Witness ==
    /\ \E i, j \in 1..Len(fwdChan) : fwdChan[i].uuid = 1 /\ fwdChan[j].uuid = 2
    /\ \E i, j \in 1..Len(outChan) : outChan[i].uuid = 1 /\ outChan[j].uuid = 2

----------------------------------------------------------------------------
(* Specification of the requests: every request tag of handleRequest, with *)
(* and without a control block that asks for a response                    *)

RequestRecords ==
    {WithReqResp(Req(k)) : k \in RequestKinds} \cup {Req("Login"), Req("Status")}

InitRequest == InitWith({DefaultSettings})

NextRequest ==
    \/ Send(RequestRecords, MaxRequests)
    \/ HandleRequestLogin
    \/ HandleRequestRespondEmpty
    \/ HandleRequestNothing
    \/ HandleRequestForward
    \/ HandleRequestServerInfo
    \/ HandleRequestPollExit
    \/ HandleRequestAttach
    \/ HandleRequestGetSummary
    \/ HandleRequestGetSystemMetrics
    \/ HandleRequestInternalMessages
    \/ HandleRequestSampledHistory
    \/ HandleRequestCancel
    \/ HandleRequestPartialHistory
    \/ HandleRequestPause
    \/ HandleRequestResume
    \/ HandleRequestDefer
    \/ HandleRequestRunStart
    \/ HandleRequestPythonPackages

SpecRequest == InitRequest /\ [][NextRequest]_vars

\* the results sent while the i-th inbound record was handled
ResultsAt(i) == {j \in 1..Len(outChan) : outAt[j] = i}

\* C6: a request is answered at most once, every Result answers a Request
\* record, and it carries the uuid and the control block of that record.
C6_OneResultPerRequest ==
    /\ \A i \in 1..Len(handled) : Cardinality(ResultsAt(i)) <= 1
    /\ \A j \in 1..Len(outChan) :
          /\ handled[outAt[j]].kind = "Request"
          /\ outChan[j].uuid = handled[outAt[j]].uuid
          /\ outChan[j].control = handled[outAt[j]].control

\* two requests answered, one with a control block and one without
C6_Witness ==
    /\ Len(outChan) = 2
    /\ outChan[1].uuid = 1 /\ outChan[1].control = ReqRespControl
    /\ outChan[2].uuid = 2 /\ outChan[2].control = NoControl

\* C7, as stated: every request whose control block has req_resp set, of
\* whatever kind, is answered by the handler.  (Refuted by the kinds that the
\* handler only forwards or only acts on, such as Keepalive or Defer.)
C7_EveryReqRespAnswered ==
    \A i \in 1..Len(handled) :
        (handled[i].kind = "Request" /\ handled[i].control.req_resp) => ResultsAt(i) # {}

\* the request kinds whose handler calls respond
RespondingKinds ==
    {"Login", "CheckVersion", "RunStatus", "Status", "Shutdown", "Attach", "PollExit",
     "GetSummary", "GetSystemMetrics", "InternalMessages", "SampledHistory", "RunStart"}

\* C7, amended: a request of a responding kind whose control block has
\* req_resp set is answered by the handler (with exactly one Result); a
\* request of any other kind is never answered by the handler.
C7_RespondingKindsAnswered ==
    \A i \in 1..Len(handled) :
        handled[i].kind = "Request" =>
            /\ (handled[i].req \in RespondingKinds /\ handled[i].control.req_resp)
                   => Cardinality(ResultsAt(i)) = 1
            /\ handled[i].req \notin RespondingKinds => ResultsAt(i) = {}

\* a Login request with req_resp that was answered and a Keepalive request
\* with req_resp that was not
C7_Witness ==
    /\ Len(handled) = 2
    /\ handled[1].req = "Login" /\ handled[1].control.req_resp /\ ResultsAt(1) # {}
    /\ handled[2].req = "Keepalive" /\ handled[2].control.req_resp /\ ResultsAt(2) = {}

----------------------------------------------------------------------------
(* Specification of history and summary: partial history requests,         *)
(* standalone history records, summary records, metrics, exit, the defer   *)
(* states that flush them; in normal, sync and shared mode                 *)

HistoryRecords ==
    {PartialHistory(<<Item("loss", "1")>>, FALSE, 0, FALSE, FALSE),
     PartialHistory(<<Item("loss", "2")>>, TRUE, 1, TRUE, TRUE),
     PartialHistory(<<Item("acc", "1")>>, TRUE, 0, TRUE, FALSE),
     PartialHistory(<<Item("_runtime", "5"), Item("_step", "9")>>, FALSE, 0, FALSE, FALSE),
     PartialHistory(<<Item("train/loss", "1"), Item("_timestamp", "3")>>, TRUE, 2, FALSE, FALSE),
     History(<<Item("loss", "3")>>, 0),
     History(<<Item("acc", "2"), Item("_step", "2"), Item("_runtime", "0.000000")>>, 2),
     [Rec("Summary") EXCEPT !.item = <<Item("train/step", "7")>>],
     Rec("Exit"),
     [Rec("Metric") EXCEPT !.metric = [NoMetric EXCEPT !.glob_name = "train/*",
                                                       !.step_metric = "train/step",
                                                       !.step_sync = TRUE]],
     Defer(FLUSH_PARTIAL_HISTORY),
     Defer(FLUSH_SUM),
     WithReqResp([Req("RunStart") EXCEPT !.run = [start_time |-> 1, starting_step |-> 1]])}

HistorySettings ==
    {DefaultSettings, [DefaultSettings EXCEPT !.x_sync = TRUE],
     [DefaultSettings EXCEPT !.x_shared = TRUE]}

InitHistory == InitWith(HistorySettings)

NextHistory ==
    \/ Send(HistoryRecords, MaxHistRecords)
    \/ Tick
    \/ HandleHistory
    \/ HandleSummary
    \/ HandleExit
    \/ HandleMetric
    \/ HandleRequestPartialHistory
    \/ HandleRequestDefer
    \/ HandleRequestRunStart

SpecHistory == InitHistory /\ [][NextHistory]_vars

\* the positions of the History records on the forward channel
HistoryAt == {i \in 1..Len(fwdChan) : fwdChan[i].kind = "History"}

\* number of items of a record with the key
CountKey(record, key) == Cardinality({n \in 1..Len(record.item) : record.item[n].key = key})

\* C3: the steps of the forwarded History records never decrease, and outside
\* shared mode they increase strictly.
C3_HistoryStepsMonotone ==
    \A i, j \in HistoryAt :
        i < j => /\ fwdChan[j].step >= fwdChan[i].step
                 /\ ~settings.x_shared => fwdChan[j].step > fwdChan[i].step

\* C4: every forwarded History record has exactly one _runtime item and,
\* outside shared mode, exactly one _step item.
C4_InternalItemsOnce ==
    \A i \in HistoryAt :
        /\ CountKey(fwdChan[i], "_runtime") = 1
        /\ ~settings.x_shared => CountKey(fwdChan[i], "_step") = 1

\* the items of the History records forwarded while the i-th inbound record
\* was handled, in the order forwarded, from position k of the forward channel
RECURSIVE HistoryItemsFrom(_, _)
HistoryItemsFrom(i, k) ==
    IF k > Len(fwdChan) THEN <<>>
    ELSE (IF fwdChan[k].kind = "History" /\ fwdAt[k] = i THEN fwdChan[k].item ELSE <<>>)
             \o HistoryItemsFrom(i, k + 1)

\* the update of the i-th inbound record as the producer sent it, when it is a
\* Summary record (outside sync mode the handler has appended one item to it)
ObservedUpdate(i) ==
    IF handled[i].kind # "Summary" THEN <<>>
    ELSE IF settings.x_sync THEN handled[i].item
    ELSE SubSeq(handled[i].item, 1, Len(handled[i].item) - 1)

\* C5: the consolidated summary is the last-writer-wins fold, from the empty
\* map, of the items of every forwarded History record and of the update of
\* every Summary record received so far.
C5_SummaryIsFoldOfObserved ==
    LET fold[n \in 0..Len(handled)] ==
            IF n = 0 THEN EmptyMap
            ELSE Consolidate(Consolidate(fold[n - 1], HistoryItemsFrom(n, 1)),
                             ObservedUpdate(n))
    IN  summaryHandler.consolidatedSummary = fold[Len(handled)]

\* the Summary records forwarded while the i-th inbound record was handled
SummaryAt(i) == {k \in 1..Len(fwdChan) : fwdChan[k].kind = "Summary" /\ fwdAt[k] = i}

\* the _wandb items of a sequence of items
WandbItems(items) == SelectSeq(items, LAMBDA it : it.key = "_wandb")

\* what the handling of the i-th inbound record consolidates besides history:
\* outside sync mode, the update of a Summary record with the _wandb runtime
\* item appended, the _wandb runtime item of an Exit record, and the _wandb
\* runtime item of Defer FLUSH_SUM (read from the summary it flushes)
ConsolidatedUpdate(i) ==
    IF settings.x_sync THEN <<>>
    ELSE CASE handled[i].kind = "Summary" -> handled[i].item
           [] handled[i].kind = "Exit" -> <<Item("_wandb", RuntimeJson(handled[i].runtime))>>
           [] handled[i].req = "Defer" /\ handled[i].state = FLUSH_SUM ->
                  WandbItems(fwdChan[CHOOSE k \in SummaryAt(i) :
                                         \A m \in SummaryAt(i) : m <= k].item)
           [] OTHER -> <<>>

\* C5, amended: the consolidated summary is the last-writer-wins fold, from
\* the empty map, of the items of every forwarded History record and, outside
\* sync mode only, of the update of every Summary record together with the
\* _wandb runtime item the handler adds at each Summary record, Exit record
\* and Defer FLUSH_SUM; in sync mode Summary and Exit records add nothing.
C5_SummaryIsFoldOfConsolidated ==
    LET fold[n \in 0..Len(handled)] ==
            IF n = 0 THEN EmptyMap
            ELSE Consolidate(Consolidate(fold[n - 1], HistoryItemsFrom(n, 1)),
                             ConsolidatedUpdate(n))
    IN  summaryHandler.consolidatedSummary = fold[Len(handled)]

\* a forwarded History record and then a Summary record, outside sync mode:
\* the summary holds the history's item, the update's item and the runtime
C5_Witness ==
    /\ ~settings.x_sync
    /\ Len(handled) = 2
    /\ HistoryItemsFrom(1, 1) # <<>>
    /\ handled[2].kind = "Summary"
    /\ {"_runtime", "train/step", "_wandb"} \subseteq DOMAIN summaryHandler.consolidatedSummary

----------------------------------------------------------------------------
(* Specification of the defer state machine: defer requests of every state, *)
(* known or not, after a partial history that is still open and a summary   *)
(* update; in normal mode, in sync mode, and without a run-files uploader   *)

\* a defer state the switch of handleRequestDefer has no case for
UnknownState == END + 1

DeferRecords ==
    {Defer(state) : state \in BEGIN..UnknownState}
        \cup {WithReqResp(Defer(BEGIN)),
              PartialHistory(<<Item("loss", "1")>>, TRUE, 0, TRUE, FALSE),
              [Rec("Summary") EXCEPT !.item = <<Item("acc", "2")>>]}

DeferSettings ==
    {DefaultSettings, [DefaultSettings EXCEPT !.x_sync = TRUE],
     [DefaultSettings EXCEPT !.uploader = FALSE]}

InitDefer == InitWith(DeferSettings)

NextDefer ==
    \/ Send(DeferRecords, MaxDeferRecords)
    \/ Tick
    \/ HandleSummary
    \/ HandleRequestPartialHistory
    \/ HandleRequestDefer

SpecDefer == InitDefer /\ [][NextDefer]_vars

\* the inbound Defer requests handled so far
DeferHandled == {i \in 1..Len(handled) : handled[i].req = "Defer"}

\* the positions on the forward channel of the defer records forwarded while
\* the i-th inbound record was handled
DeferAt(i) == {k \in 1..Len(fwdChan) : fwdChan[k].req = "Defer" /\ fwdAt[k] = i}

\* the inbound record with always_send and local set in its control block
DeferClone(record) ==
    [record EXCEPT !.control = [record.control EXCEPT !.present = TRUE,
                                                      !.always_send = TRUE,
                                                      !.local = TRUE]]

\* C8: each inbound Defer request, whatever its state, has exactly one defer
\* record on the forward channel, equal to the inbound record but for
\* always_send = true and local = true; no other defer record is forwarded.
C8_DeferForwardedOnce ==
    /\ \A i \in DeferHandled :
          /\ Cardinality(DeferAt(i)) = 1
          /\ \A k \in DeferAt(i) : fwdChan[k] = DeferClone(handled[i])
    /\ \A k \in 1..Len(fwdChan) : fwdChan[k].req = "Defer" => fwdAt[k] \in DeferHandled

\* a Defer request of an unknown state and one with a control block of its
\* own, both forwarded
C8_Witness ==
    /\ Len(handled) = 2
    /\ handled[1].req = "Defer" /\ handled[1].state = UnknownState
    /\ handled[2].req = "Defer" /\ handled[2].control.req_resp
    /\ DeferAt(1) # {} /\ DeferAt(2) # {}

\* the position of the defer record of the i-th inbound record
DeferPos(i) == CHOOSE k \in DeferAt(i) : TRUE

\* a call on a collaborator made while the i-th inbound record was handled,
\* before the d-th record was put on the forward channel
CalledBefore(i, name, d) ==
    \E c \in 1..Len(calls) :
        calls[c].at = i /\ calls[c].name = name /\ calls[c].fwdLen < d

\* the side effects of the state of the i-th inbound record, a Defer request,
\* are there, before position d of the forward channel
SideEffectsBefore(i, d) ==
    /\ handled[i].state = FLUSH_STATS => CalledBefore(i, "systemMonitor.Stop", d)
    /\ (handled[i].state = FLUSH_PARTIAL_HISTORY /\ i > 1
            /\ handled[i - 1].req = "PartialHistory")
          => d > 1 /\ fwdChan[d - 1].kind = "History" /\ fwdAt[d - 1] = i
    /\ handled[i].state = FLUSH_TB => CalledBefore(i, "tbHandler.Close", d)
    /\ handled[i].state = FLUSH_SUM
          => /\ d > 1 /\ fwdChan[d - 1].kind = "Summary" /\ fwdAt[d - 1] = i
             /\ ~settings.x_sync => WandbItems(fwdChan[d - 1].item) # <<>>
             /\ (~settings.x_sync /\ settings.uploader)
                   => CalledBefore(i, "uploader.UploadNow wandb-summary.json", d)
    /\ (handled[i].state = FLUSH_FP /\ settings.uploader)
          => CalledBefore(i, "uploader.UploadRemaining", d)
    /\ (handled[i].state = FLUSH_FINAL /\ ~settings.x_sync)
          => /\ d > 2
             /\ fwdChan[d - 2].kind = "Final" /\ fwdAt[d - 2] = i
             /\ fwdChan[d - 1].kind = "Footer" /\ fwdAt[d - 1] = i
    /\ handled[i].state = END => CalledBefore(i, "fileTransferStats.SetDone", d)

\* C9: for every Defer request the side effects of its state are done before
\* its defer record is put on the forward channel: the records the handling
\* forwards and the calls it makes all come before the defer record, and the
\* side effects of the state are among them.
C9_SideEffectsBeforeDefer ==
    \A i \in DeferHandled :
        /\ DeferAt(i) # {}
        /\ \A k \in 1..Len(fwdChan) : fwdAt[k] = i => k <= DeferPos(i)
        /\ \A c \in 1..Len(calls) : calls[c].at = i => calls[c].fwdLen < DeferPos(i)
        /\ SideEffectsBefore(i, DeferPos(i))

\* a partial history left open and then Defer FLUSH_PARTIAL_HISTORY: the
\* History record is on the forward channel right before the defer record
C9_Witness ==
    /\ Len(handled) = 2
    /\ handled[1].req = "PartialHistory"
    /\ handled[2].req = "Defer" /\ handled[2].state = FLUSH_PARTIAL_HISTORY
    /\ DeferAt(2) # {}
    /\ fwdChan[DeferPos(2) - 1].kind = "History"

\* the states of the defer records in a sequence of records, in order
DeferStates(records) ==
    LET defers == SelectSeq(records, LAMBDA r : r.req = "Defer")
    IN  [k \in 1..Len(defers) |-> defers[k].state]

\* C10: the forwarded defer records appear in non-decreasing numeric order of
\* their state.
C10_DeferStatesNonDecreasing ==
    \A j, k \in 1..Len(DeferStates(fwdChan)) :
        j < k => DeferStates(fwdChan)[j] <= DeferStates(fwdChan)[k]

\* the defer state whose case makes the call or forwards the record
PhaseOfCall(name) ==
    CASE name = "systemMonitor.Stop" -> FLUSH_STATS
      [] name = "tbHandler.Close" -> FLUSH_TB
      [] name \in {"WriteFile wandb-summary.json", "uploader.UploadNow wandb-summary.json"}
             -> FLUSH_SUM
      [] name = "uploader.UploadRemaining" -> FLUSH_FP
      [] name = "fileTransferStats.SetDone" -> END

\* C10, amended: the handler executes each Defer request when it arrives. The
\* forwarded defer records are in the order the requests arrived in, every
\* side effect of a phase happens while a request of that phase is handled,
\* and so both are in non-decreasing numeric order whenever the requests
\* arrived in that order; the handler does not reorder or reject a request
\* whose state is below an earlier one.
C10_DeferInArrivalOrder ==
    /\ DeferStates(fwdChan) = DeferStates(handled)
    /\ \A c \in 1..Len(calls) :
          /\ handled[calls[c].at].req = "Defer"
          /\ handled[calls[c].at].state = PhaseOfCall(calls[c].name)
    /\ \A k \in 1..Len(fwdChan) :
          fwdChan[k].kind \in {"Final", "Footer"}
              => handled[fwdAt[k]].req = "Defer" /\ handled[fwdAt[k]].state = FLUSH_FINAL
    /\ \A c, e \in 1..Len(calls) : c < e => calls[c].at <= calls[e].at
    /\ \A j, k \in 1..Len(fwdAt) : j < k => fwdAt[j] <= fwdAt[k]

\* Defer END handled before Defer FLUSH_STATS: both are executed and forwarded
\* as they arrived, SetDone before Stop
C10_Witness ==
    /\ DeferStates(handled) = <<END, FLUSH_STATS>>
    /\ DeferStates(fwdChan) = <<END, FLUSH_STATS>>
    /\ Len(calls) = 2
    /\ calls[1].name = "fileTransferStats.SetDone"
    /\ calls[2].name = "systemMonitor.Stop"

\* the tag of a record: its request tag for a Request record
Tag(record) == IF record.kind = "Request" THEN record.req ELSE record.kind

\* the tags of the records forwarded while the i-th inbound record was
\* handled, in order (they are neighbours on the forward channel)
FwdTagsAt(i) ==
    LET at == {k \in 1..Len(fwdChan) : fwdAt[k] = i}
        before == Cardinality({k \in 1..Len(fwdChan) : fwdAt[k] < i})
    IN  [n \in 1..Cardinality(at) |-> Tag(fwdChan[before + n])]

\* the names of the calls made while the i-th inbound record was handled
CallNamesAt(i) ==
    LET at == {c \in 1..Len(calls) : calls[c].at = i}
        before == Cardinality({c \in 1..Len(calls) : calls[c].at < i})
    IN  [n \in 1..Cardinality(at) |-> calls[before + n].name]

\* the i-th inbound record finds items in the active history: a partial
\* history was left open and no Defer FLUSH_PARTIAL_HISTORY has flushed it
OpenHistoryAt(i) ==
    \E j \in 1..(i - 1) :
        /\ handled[j].req = "PartialHistory"
        /\ \A k \in (j + 1)..(i - 1) :
              ~(handled[k].req = "Defer" /\ handled[k].state = FLUSH_PARTIAL_HISTORY)

\* the records a Defer request forwards before its defer record, when the
\* debouncer tick that precedes its dispatch forwards nothing: the flushed
\* History at FLUSH_PARTIAL_HISTORY, the flushed Summary at FLUSH_SUM, Final
\* and Footer at FLUSH_FINAL (withFinal)
DeferForwards(i, withFinal) ==
    CASE handled[i].state = FLUSH_PARTIAL_HISTORY ->
             IF OpenHistoryAt(i) THEN <<"History">> ELSE <<>>
      [] handled[i].state = FLUSH_SUM -> <<"Summary">>
      [] handled[i].state = FLUSH_FINAL -> IF withFinal THEN <<"Final", "Footer">> ELSE <<>>
      [] OTHER -> <<>>

\* the forwards of the i-th inbound record, a Defer request, are those of its
\* state, after the Summary of the debouncer tick if it had a token
DeferForwardsAre(i, withFinal) ==
    FwdTagsAt(i) \in {DeferForwards(i, withFinal) \o <<"Defer">>,
                      <<"Summary">> \o DeferForwards(i, withFinal) \o <<"Defer">>}

\* the calls of a Defer state; the write of the summary file leaves a call
\* only when it succeeds
DeferCalls(state, withFile, withUploader) ==
    CASE state = FLUSH_STATS -> {<<"systemMonitor.Stop">>}
      [] state = FLUSH_TB -> {<<"tbHandler.Close">>}
      [] state = FLUSH_SUM ->
             IF ~withFile THEN {<<>>}
             ELSE IF withUploader
             THEN {<<"WriteFile wandb-summary.json", "uploader.UploadNow wandb-summary.json">>,
                   <<"uploader.UploadNow wandb-summary.json">>}
             ELSE {<<"WriteFile wandb-summary.json">>, <<>>}
      [] state = FLUSH_FP -> IF withUploader THEN {<<"uploader.UploadRemaining">>} ELSE {<<>>}
      [] state = END -> {<<"fileTransferStats.SetDone">>}
      [] OTHER -> {<<>>}

\* C11: every Defer request has exactly the side effects of its state: monitor
\* stop at FLUSH_STATS, flush of the active history at FLUSH_PARTIAL_HISTORY,
\* TensorBoard close at FLUSH_TB, summary flush, summary file and UploadNow at
\* FLUSH_SUM, UploadRemaining at FLUSH_FP, Final then Footer at FLUSH_FINAL,
\* SetDone at END, and nothing at any other state.
C11_DeferSideEffectsExact ==
    \A i \in DeferHandled :
        /\ DeferForwardsAre(i, TRUE)
        /\ CallNamesAt(i) \in DeferCalls(handled[i].state, TRUE, TRUE)

\* C11, amended: as C11, but the summary file and UploadNow at FLUSH_SUM and
\* Final and Footer at FLUSH_FINAL only outside sync mode, and UploadNow and
\* UploadRemaining only when the handler has a run-files uploader.
C11_DeferSideEffectsByMode ==
    \A i \in DeferHandled :
        /\ DeferForwardsAre(i, ~settings.x_sync)
        /\ CallNamesAt(i) \in DeferCalls(handled[i].state, ~settings.x_sync, settings.uploader)

\* Defer FLUSH_SUM and then Defer FLUSH_FINAL outside sync mode, with an
\* uploader: the summary file is uploaded, Final and Footer are forwarded
C11_Witness ==
    /\ ~settings.x_sync /\ settings.uploader
    /\ Len(handled) = 2
    /\ handled[1].req = "Defer" /\ handled[1].state = FLUSH_SUM
    /\ handled[2].req = "Defer" /\ handled[2].state = FLUSH_FINAL
    /\ \E n \in DOMAIN CallNamesAt(1) : CallNamesAt(1)[n] = "uploader.UploadNow wandb-summary.json"
    /\ FwdTagsAt(2) = <<"Final", "Footer", "Defer">>

----------------------------------------------------------------------------
(* Specification of a session: run start, attach, exit polling and the end  *)
(* of the defer state machine, with other records in between               *)

SessionRecords ==
    {WithReqResp([Req("RunStart") EXCEPT !.run = [start_time |-> 1, starting_step |-> 1]]),
     WithReqResp([Req("RunStart") EXCEPT !.run = [start_time |-> 0, starting_step |-> 2]]),
     WithReqResp(Req("Attach")),
     WithReqResp(Req("PollExit")),
     Defer(END),
     Defer(FLUSH_FS),
     Rec("Run"),
     Rec("Exit")}

InitSession == InitWith({DefaultSettings})

NextSession ==
    \/ Send(SessionRecords, MaxSessionRecords)
    \/ HandleRun
    \/ HandleExit
    \/ HandleRequestRunStart
    \/ HandleRequestAttach
    \/ HandleRequestPollExit
    \/ HandleRequestDefer

SpecSession == InitSession /\ [][NextSession]_vars

\* C12: once a Defer END has been handled the file-transfer stats reports
\* done, and every PollExit request handled after it is answered, with
\* done = true.
C12_PollExitDoneAfterEnd ==
    \A i \in 1..Len(handled) :
        (handled[i].req = "Defer" /\ handled[i].state = END) =>
            /\ IsDone(H)
            /\ \A j \in (i + 1)..Len(handled) :
                  handled[j].req = "PollExit" =>
                      /\ ResultsAt(j) # {}
                      /\ \A k \in ResultsAt(j) :
                            /\ outChan[k].response.type = "PollExitResponse"
                            /\ outChan[k].response.done

\* a PollExit answered with done = false before Defer END and one answered
\* with done = true after it
C12_Witness ==
    /\ Len(handled) = 3
    /\ handled[1].req = "PollExit" /\ \E k \in ResultsAt(1) : ~outChan[k].response.done
    /\ handled[2].req = "Defer" /\ handled[2].state = END
    /\ handled[3].req = "PollExit" /\ \E k \in ResultsAt(3) : outChan[k].response.done

\* the RunStart requests handled before the j-th inbound record
RunStartsBefore(j) == {i \in 1..(j - 1) : handled[i].req = "RunStart"}

\* C17: after a RunStart request has been handled, every Attach request is
\* answered with an AttachResponse whose run is the run record of the (last)
\* RunStart request handled before it, whatever was handled in between.
C17_AttachReturnsRun ==
    \A j \in 1..Len(handled) :
        (handled[j].req = "Attach" /\ RunStartsBefore(j) # {}) =>
            /\ ResultsAt(j) # {}
            /\ \A k \in ResultsAt(j) :
                  /\ outChan[k].response.type = "AttachResponse"
                  /\ outChan[k].response.hasRun
                  /\ \E i \in RunStartsBefore(j) :
                        /\ \A m \in RunStartsBefore(j) : m <= i
                        /\ outChan[k].response.run = handled[i].run

\* RunStart, then an Exit record, then Attach: the response carries the run
C17_Witness ==
    /\ Len(handled) = 3
    /\ handled[1].req = "RunStart" /\ handled[1].run.starting_step = 1
    /\ handled[2].kind = "Exit"
    /\ handled[3].req = "Attach"
    /\ \E k \in ResultsAt(3) : outChan[k].response.run = [start_time |-> 1, starting_step |-> 1]

----------------------------------------------------------------------------
(* Specification of sync mode: the records of an offline run are replayed   *)
(* with x_sync set, with and without a run-files uploader                   *)

SyncRecords ==
    {Rec("Exit"), Rec("Final"), Rec("Footer"),
     [Rec("Summary") EXCEPT !.item = <<Item("acc", "2")>>],
     History(<<Item("loss", "1")>>, 1),
     PartialHistory(<<Item("loss", "2")>>, FALSE, 0, FALSE, FALSE),
     Defer(FLUSH_SUM),
     Defer(FLUSH_FINAL)}

SyncSettings ==
    {[DefaultSettings EXCEPT !.x_sync = TRUE],
     [DefaultSettings EXCEPT !.x_sync = TRUE, !.uploader = FALSE]}

InitSync == InitWith(SyncSettings)

NextSync ==
    \/ Send(SyncRecords, MaxSyncRecords)
    \/ Tick
    \/ HandleExit
    \/ HandleFinal
    \/ HandleFooter
    \/ HandleSummary
    \/ HandleHistory
    \/ HandleRequestPartialHistory
    \/ HandleRequestDefer

SpecSync == InitSync /\ [][NextSync]_vars

\* in sync mode: every forwarded Exit record has always_send and local set,
\* one is forwarded for each Exit record handled, no Final and no Footer
\* record is on the forward channel, and the summary file was neither written
\* nor uploaded
SyncSuppressed ==
    /\ \A i \in 1..Len(handled) :
          handled[i].kind = "Exit" =>
              \E k \in 1..Len(fwdChan) : fwdAt[k] = i /\ fwdChan[k].kind = "Exit"
    /\ \A k \in 1..Len(fwdChan) :
          /\ fwdChan[k].kind = "Exit" =>
                 fwdChan[k].control.always_send /\ fwdChan[k].control.local
          /\ fwdChan[k].kind \notin {"Final", "Footer"}
    /\ \A c \in 1..Len(calls) :
          calls[c].name \notin {"WriteFile wandb-summary.json",
                                "uploader.UploadNow wandb-summary.json"}

\* in sync mode the handling of an Exit or Summary record leaves the
\* consolidated summary as it was, and the summary delta as the debouncer
\* tick that precedes the dispatch left it
SyncLeavesSummary ==
    (/\ settings.x_sync
     /\ Receives("Exit", "") \/ Receives("Summary", "")
     /\ Len(handled') = Len(handled) + 1)
        => /\ summaryHandler'.consolidatedSummary = summaryHandler.consolidatedSummary
           /\ summaryHandler'.summaryDelta = Dispatched.summaryHandler.summaryDelta

\* C13: with x_sync set an Exit record is forwarded with always_send and
\* local set, no Final or Footer record is ever forwarded, the summary file
\* is never written or uploaded, and neither an Exit nor a Summary record
\* changes the consolidated summary or the summary delta.
C13_SyncMode == [](settings.x_sync => SyncSuppressed) /\ [][SyncLeavesSummary]_vars

\* sync mode: a History record has filled the summary, then a Summary record
\* and an Exit record were handled and the summary holds the history's items only
C13_Witness ==
    /\ settings.x_sync
    /\ Len(handled) = 3
    /\ handled[1].kind = "History" /\ handled[2].kind = "Summary" /\ handled[3].kind = "Exit"
    /\ DOMAIN summaryHandler.consolidatedSummary = {"loss", "_runtime", "_step"}
    /\ \E k \in 1..Len(fwdChan) : fwdChan[k].kind = "Exit" /\ fwdChan[k].control.local


----------------------------------------------------------------------------
(* Specification of step numbering: partial history requests that carry a  *)
(* step, in sync (non-shared) mode, after a run start or without one       *)

StepRecords ==
    {PartialHistory(<<Item("loss", "1")>>, TRUE, 0, TRUE, TRUE),
     PartialHistory(<<Item("loss", "2")>>, TRUE, 1, TRUE, TRUE),
     PartialHistory(<<Item("loss", "9")>>, TRUE, 0, TRUE, TRUE),
     PartialHistory(<<Item("acc", "3")>>, TRUE, 2, TRUE, FALSE),
     WithReqResp([Req("RunStart") EXCEPT !.run = [start_time |-> 1, starting_step |-> 1]]),
     WithReqResp(Req("GetSummary"))}

InitSteps == InitWith({DefaultSettings})

NextSteps ==
    \/ Send(StepRecords, MaxStepRecords)
    \/ Tick
    \/ HandleRequestPartialHistory
    \/ HandleRequestRunStart
    \/ HandleRequestGetSummary

SpecSteps == InitSteps /\ [][NextSteps]_vars

\* the step the accumulator is at when the next record is dispatched: the
\* step of the active history, or the starting step it is created with
CurrentStep == IF activeHistory.exists THEN activeHistory.step ELSE GetStartingStep(H)

\* the next step handles a PartialHistory request whose step is below the
\* current step of the accumulator, outside shared mode
StepRegression ==
    /\ Receives("Request", "PartialHistory")
    /\ Len(handled') = Len(handled) + 1
    /\ ~settings.x_shared
    /\ Head(inChan).hasStep
    /\ Head(inChan).step < CurrentStep

\* the text written to the printer for a request of step s at current step c
RegressionText(s, c) ==
    "steps must be monotonically increasing, received history record for a step ("
    \o ToString(s) \o ") that is less than the current step ("
    \o ToString(c) \o ") this data will be ignored"

\* the request is dropped: nothing is forwarded by its handler, the
\* accumulator keeps its items and its step, the summary, the delta and the
\* samplers are as the dispatch left them, and the printer gets one message
RegressionDropped ==
    /\ fwdChan' = Dispatched.fwdChan
    /\ \A i \in Len(fwdChan) + 1..Len(fwdChan') : fwdChan'[i].kind # "History"
    /\ activeHistory'.exists
    /\ activeHistory'.step = CurrentStep
    /\ activeHistory'.values = activeHistory.values
    /\ summaryHandler'.consolidatedSummary = summaryHandler.consolidatedSummary
    /\ summaryHandler'.summaryDelta = Dispatched.summaryHandler.summaryDelta
    /\ samplers' = samplers
    /\ outChan' = outChan
    /\ internalPrinter' =
           Append(internalPrinter,
                  Item("warning", RegressionText(Head(inChan).step, CurrentStep)))

\* C14: outside shared mode a PartialHistory request whose step is below the
\* current step of the accumulator is dropped: no History record is
\* forwarded for it, the accumulator keeps its items and its step, the
\* consolidated summary, the summary delta and the samplers are unchanged,
\* and exactly one message naming both steps is written to the printer.
C14_StepRegressionDropped == [][StepRegression => RegressionDropped]_vars

\* steps 0 and 1 were flushed, then a request for step 0 was handled and
\* reported with the steps 0 and 2
C14_Witness ==
    /\ Len(handled) = 3
    /\ \A i \in 1..3 : handled[i].req = "PartialHistory"
    /\ handled[1].step = 0 /\ handled[2].step = 1 /\ handled[3].step = 0
    /\ Cardinality(HistoryAt) = 2
    /\ activeHistory.step = 2
    /\ internalPrinter = <<Item("warning", RegressionText(0, 2))>>


----------------------------------------------------------------------------
(* Specification of metrics: metric definitions by name and by glob, with  *)
(* and without a step metric, and the history that is matched against them *)

MetricRecords ==
    {[Rec("Metric") EXCEPT !.metric = [NoMetric EXCEPT !.glob_name = "train/*",
                                                       !.step_metric = "train/step",
                                                       !.step_sync = TRUE]],
     [Rec("Metric") EXCEPT !.metric = [NoMetric EXCEPT !.name = "train/loss",
                                                       !.step_metric = "acc"]],
     [Rec("Metric") EXCEPT !.metric = [NoMetric EXCEPT !.name = "loss",
                                                       !.step_metric = "_step",
                                                       !.step_sync = TRUE]],
     [Rec("Metric") EXCEPT !.metric = [NoMetric EXCEPT !.step_metric = "acc",
                                                       !.step_sync = TRUE]],
     PartialHistory(<<Item("train/loss", "1")>>, FALSE, 0, FALSE, FALSE),
     PartialHistory(<<Item("train/loss", "2"), Item("train/step", "4")>>, FALSE, 0, FALSE, FALSE),
     PartialHistory(<<Item("loss", "1")>>, FALSE, 0, FALSE, FALSE),
     History(<<Item("train/loss", "3")>>, 5),
     [Rec("Summary") EXCEPT !.item = <<Item("train/step", "7")>>]}

MetricSettings == {DefaultSettings, [DefaultSettings EXCEPT !.x_shared = TRUE]}

InitMetric == InitWith(MetricSettings)

NextMetric ==
    \/ Send(MetricRecords, MaxMetricRecords)
    \/ Tick
    \/ HandleMetric
    \/ HandleHistory
    \/ HandleSummary
    \/ HandleRequestPartialHistory

SpecMetric == InitMetric /\ [][NextMetric]_vars

\* the records the next step puts on the forward channel
NewForwards == SubSeq(fwdChan', Len(fwdChan) + 1, Len(fwdChan'))

\* the consolidated summary after the History records among the first n of
\* the records were flushed, starting from the summary m
RECURSIVE SummaryAfter(_, _, _)
SummaryAfter(m, records, n) ==
    IF n = 0 THEN m
    ELSE IF records[n].kind = "History"
         THEN Consolidate(SummaryAfter(m, records, n - 1), records[n].item)
         ELSE SummaryAfter(m, records, n - 1)

\* the consolidated summary at the time the k-th of the new records is flushed
SummaryAtFlush(k) ==
    SummaryAfter(Dispatched.summaryHandler.consolidatedSummary, NewForwards, k - 1)

\* the number of items a History record has before step metrics are imputed:
\* its items up to the _step item (in shared mode the _runtime item) that
\* flushHistory appends
OwnItems(record) ==
    IF settings.x_shared
    THEN CHOOSE n \in 1..Len(record.item) :
             /\ record.item[n].key = "_runtime"
             /\ \A j \in n + 1..Len(record.item) : record.item[j].key # "_runtime"
    ELSE CHOOSE n \in 1..Len(record.item) :
             /\ record.item[n] = Item("_step", FormatInt(record.step))
             /\ \A j \in n + 1..Len(record.item) :
                    record.item[j] # Item("_step", FormatInt(record.step))

\* the metric of a key: the exact definition first, then the first glob
ResolvedMetric(key) == matchHistoryItemMetric(Dispatched, Item(key, "")).metric

\* the step metrics the record calls for: those of its own items whose metric
\* is synced, that are not among its own items and that the summary s holds
StepMetricsDue(record, s) ==
    {key \in DOMAIN s :
        /\ \A n \in 1..OwnItems(record) : record.item[n].key # key
        /\ \E n \in 1..OwnItems(record) :
               /\ ~HasUnderscorePrefix(record.item[n].key)
               /\ ResolvedMetric(record.item[n].key).step_sync
               /\ ResolvedMetric(record.item[n].key).step_metric = key}

\* the items after the record's own are one item for each step metric that
\* is due, with the value the summary s holds for it
ImputedExactly(record, s) ==
    /\ \A key \in StepMetricsDue(record, s) :
           \E n \in OwnItems(record) + 1..Len(record.item) : record.item[n] = Item(key, s[key])
    /\ \A n \in OwnItems(record) + 1..Len(record.item) :
           /\ record.item[n].key \in StepMetricsDue(record, s)
           /\ record.item[n].value_json = s[record.item[n].key]
           /\ \A j \in OwnItems(record) + 1..Len(record.item) :
                  record.item[j].key = record.item[n].key => j = n

\* C15: every forwarded History record holds, after its own items, exactly one
\* item for each step metric that a synced metric of one of its items (keys
\* starting with _ aside) names, that is not among its own items and that the
\* consolidated summary holds at the time of the flush, with the summary's
\* value; no other step-metric item is added.
C15_StepMetricImputed ==
    [][(pc = "run" /\ inChan # <<>>) =>
        \A k \in 1..Len(NewForwards) :
            NewForwards[k].kind = "History" =>
                ImputedExactly(NewForwards[k], SummaryAtFlush(k))]_vars


----------------------------------------------------------------------------
(* Forwarding of the summary, under SpecHistory *)

\* the items are the entries of the map, one item for each key
ItemsOfMap(items, m) ==
    /\ Len(items) = Cardinality(DOMAIN m)
    /\ \A n \in 1..Len(items) :
           /\ items[n].key \in DOMAIN m
           /\ items[n].value_json = m[items[n].key]
    /\ \A n, j \in 1..Len(items) : items[n].key = items[j].key => n = j

\* the number of records the debouncer tick of the next step forwards
ForwardedByTick == Len(Dispatched.fwdChan) - Len(fwdChan)

\* the delta when Defer FLUSH_SUM flushes it: the keys the dispatch left and
\* the key handleSummary adds outside sync mode, with their latest values
DeltaAtFlush ==
    [key \in DOMAIN Dispatched.summaryHandler.summaryDelta
                \cup (IF settings.x_sync THEN {} ELSE {"_wandb"}) |->
        summaryHandler'.consolidatedSummary[key]]

\* the tick forwards at most one record, a Summary record with the delta,
\* and leaves the delta empty
TickForwardsDelta ==
    /\ ForwardedByTick \in {0, 1}
    /\ ForwardedByTick = 1 =>
           /\ fwdChan'[Len(fwdChan) + 1].kind = "Summary"
           /\ ItemsOfMap(fwdChan'[Len(fwdChan) + 1].item, summaryHandler.summaryDelta)
           /\ Dispatched.summaryHandler.summaryDelta = EmptyMap

\* the handler of the record forwards one Summary record, with the delta, at
\* Defer FLUSH_SUM and leaves the delta empty; it forwards none otherwise
HandlerForwardsDelta ==
    IF Head(inChan).req = "Defer" /\ Head(inChan).state = FLUSH_SUM
    THEN /\ \E k \in Len(Dispatched.fwdChan) + 1..Len(fwdChan') :
                /\ fwdChan'[k].kind = "Summary"
                /\ ItemsOfMap(fwdChan'[k].item, DeltaAtFlush)
                /\ \A j \in Len(Dispatched.fwdChan) + 1..Len(fwdChan') :
                       fwdChan'[j].kind = "Summary" => j = k
         /\ summaryHandler'.summaryDelta = EmptyMap
    ELSE \A k \in Len(Dispatched.fwdChan) + 1..Len(fwdChan') : fwdChan'[k].kind # "Summary"

\* C16: a Summary record is forwarded only by the debouncer, on the tick
\* before a record is dispatched or at Defer FLUSH_SUM, never by the handler
\* of a History, Summary or Exit record; it holds exactly the keys of the
\* delta with their latest values, and the delta is empty right after.
C16_SummaryOnlyByDebouncer ==
    [][(pc = "run" /\ inChan # <<>> /\ Len(handled') = Len(handled) + 1) =>
           TickForwardsDelta /\ HandlerForwardsDelta]_vars

\* a flushed history, then Defer FLUSH_SUM: the tick forwarded the delta of the
\* history and the flush forwarded the run time
C16_Witness ==
    /\ Len(handled) = 2
    /\ handled[1].req = "PartialHistory"
    /\ handled[2].req = "Defer" /\ handled[2].state = FLUSH_SUM
    /\ ~settings.x_sync
    /\ \E i \in 1..Len(fwdChan) - 1 :
           /\ fwdAt[i] = 2 /\ fwdChan[i].kind = "Summary"
           /\ \E n \in 1..Len(fwdChan[i].item) : fwdChan[i].item[n].key = "loss"
           /\ fwdAt[i + 1] = 2 /\ fwdChan[i + 1].kind = "Summary"
           /\ Len(fwdChan[i + 1].item) = 1 /\ fwdChan[i + 1].item[1].key = "_wandb"
    /\ summaryHandler.summaryDelta = EmptyMap


----------------------------------------------------------------------------
(* Specification of the forwarding handlers: the record kinds that are     *)
(* passed on as they are, Files records with and without files, TBRecord   *)

ForwardRecords ==
    {Rec(kind) : kind \in ForwardKinds}
    \cup {[Rec("Files") EXCEPT !.hasFiles = TRUE, !.files = <<"a.txt">>],
          Rec("Files"),
          Rec("Tbrecord")}

InitForward == InitWith({DefaultSettings})

NextForward ==
    \/ Send(ForwardRecords, MaxForwardRecords)
    \/ HandleForward
    \/ HandleFiles
    \/ HandleTBrecord

SpecForward == InitForward /\ [][NextForward]_vars

\* the places of the i-th inbound record on the forward channel
ForwardsOf(i) == {p \in 1..Len(fwdChan) : fwdChan[p] = handled[i]}

\* the calls of the TensorBoard handler for the i-th inbound record
TBHandleCalls(i) ==
    {c \in 1..Len(calls) : calls[c].name = "tbHandler.Handle" /\ calls[c].at = i}

\* the i-th inbound record is of a kind that is forwarded as it is
PlainForwarded(i) ==
    \/ handled[i].kind \in ForwardKinds
    \/ handled[i].kind = "Files" /\ handled[i].hasFiles

\* C18 as stated: records of the forwarding kinds, Files records with files
\* and TBRecords are forwarded exactly once, a TBRecord after it was handed to
\* the TensorBoard handler; a Files record with nil files is not forwarded.
C18_ForwardedOnce ==
    \A i \in 1..Len(handled) :
        /\ PlainForwarded(i) => Cardinality(ForwardsOf(i)) = 1
        /\ handled[i].kind = "Tbrecord" =>
               /\ Cardinality(ForwardsOf(i)) = 1
               /\ \E c \in TBHandleCalls(i) : \A p \in ForwardsOf(i) : calls[c].fwdLen < p
        /\ handled[i].kind = "Files" /\ ~handled[i].hasFiles => ForwardsOf(i) = {}

\* C18: records of the forwarding kinds and Files records with files are
\* forwarded exactly once; a TBRecord is handed to the TensorBoard handler
\* once and is not forwarded; a Files record with nil files is not forwarded.
C18_ForwardedOnceButTB ==
    \A i \in 1..Len(handled) :
        /\ PlainForwarded(i) => Cardinality(ForwardsOf(i)) = 1
        /\ handled[i].kind = "Tbrecord" =>
               /\ ForwardsOf(i) = {}
               /\ Cardinality(TBHandleCalls(i)) = 1
        /\ handled[i].kind = "Files" /\ ~handled[i].hasFiles => ForwardsOf(i) = {}

\* a TBRecord and then a Files record with files were handled
C18_Witness ==
    /\ Len(handled) = 2
    /\ handled[1].kind = "Tbrecord"
    /\ handled[2].kind = "Files" /\ handled[2].hasFiles
    /\ \E p \in 1..Len(fwdChan) : fwdChan[p] = handled[2]


----------------------------------------------------------------------------
(* Metric records without a name, under SpecMetric *)

\* the next step handles a Metric record that has neither name nor glob name
InvalidMetric ==
    /\ Receives("Metric", "")
    /\ Len(handled') = Len(handled) + 1
    /\ Head(inChan).metric.name = ""
    /\ Head(inChan).metric.glob_name = ""

\* C19: a Metric record with neither name nor glob name is not forwarded,
\* produces no synthesized metric record and leaves the defined metrics and
\* the glob metrics unchanged; the handler goes on to the next record.
C19_InvalidMetricIgnored ==
    [][InvalidMetric =>
        /\ fwdChan' = Dispatched.fwdChan
        /\ \A k \in 1..Len(NewForwards) : NewForwards[k].kind # "Metric"
        /\ metricHandler' = metricHandler
        /\ pc' = "run"
        /\ inChan' = Tail(inChan)]_vars

\* a Metric record with a step metric and no name was handled in a run that
\* already had a glob metric, and the record after it was handled too
C19_Witness ==
    /\ Len(handled) = 3
    /\ handled[1].kind = "Metric" /\ handled[1].metric.glob_name = "train/*"
    /\ handled[2].kind = "Metric"
    /\ handled[2].metric.name = "" /\ handled[2].metric.glob_name = ""
    /\ handled[2].metric.step_metric = "acc"
    /\ handled[3].req = "PartialHistory"
    /\ Len(metricHandler.globMetrics) = 1
    /\ \A p \in 1..Len(fwdChan) : fwdAt[p] # 2 \/ fwdChan[p].kind = "Summary"


----------------------------------------------------------------------------
(* Specification of the samplers: history items with values that are JSON  *)
(* numbers, strings, booleans and null, and requests for the samples       *)

SamplerRecords ==
    {PartialHistory(<<Item("loss", "1")>>, FALSE, 0, FALSE, FALSE),
     PartialHistory(<<Item("loss", "true")>>, FALSE, 0, FALSE, FALSE),
     PartialHistory(<<Item("acc", "\"cat\"")>>, FALSE, 0, FALSE, FALSE),
     PartialHistory(<<Item("acc", "null")>>, FALSE, 0, FALSE, FALSE),
     History(<<Item("loss", "2"), Item("acc", "\"dog\"")>>, 3),
     WithReqResp(Req("SampledHistory"))}

InitSampler == InitWith({DefaultSettings})

NextSampler ==
    \/ Send(SamplerRecords, MaxSamplerRecords)
    \/ HandleHistory
    \/ HandleRequestPartialHistory
    \/ HandleRequestSampledHistory

SpecSampler == InitSampler /\ [][NextSampler]_vars

\* the number of items with the key and a value that is a JSON number in the
\* History records forwarded so far
RECURSIVE FloatItems(_, _)
FloatItems(key, p) ==
    IF p = 0 THEN 0
    ELSE FloatItems(key, p - 1)
         + (IF fwdChan[p].kind = "History"
            THEN Cardinality({n \in 1..Len(fwdChan[p].item) :
                                 /\ fwdChan[p].item[n].key = key
                                 /\ IsNumber(fwdChan[p].item[n].value_json)})
            ELSE 0)

\* C20: a sampler exists for a key only if an item of a forwarded History
\* record with the key had a value that is a 32-bit float; an item whose value
\* is not a float creates no sampler and adds no value to one; a key that only
\* carried values that are not floats is in no SampledHistory response.
C20_SamplersOnlyForFloats ==
    /\ \A key \in DOMAIN samplers.byKey :
           /\ FloatItems(key, Len(fwdChan)) > 0
           /\ Len(samplers.byKey[key]) = Min(FloatItems(key, Len(fwdChan)), SamplerCapacity)
    /\ \A j \in 1..Len(outChan) :
           \A n \in 1..Len(outChan[j].response.item) :
               FloatItems(outChan[j].response.item[n].key, Len(fwdChan)) > 0


----------------------------------------------------------------------------
(* Specification of the partial history: requests with and without a step, *)
(* with and without an action, with and without items, and a standalone    *)
(* history record; in sync (non-shared) and in shared mode                 *)

PartialRecords ==
    {PartialHistory(<<Item("loss", "1")>>, FALSE, 0, FALSE, FALSE),
     PartialHistory(<<Item("loss", "2")>>, TRUE, 1, TRUE, TRUE),
     PartialHistory(<<Item("acc", "1")>>, TRUE, 2, FALSE, FALSE),
     PartialHistory(<<Item("acc", "2")>>, FALSE, 0, TRUE, FALSE),
     PartialHistory(<<>>, FALSE, 0, TRUE, TRUE),
     PartialHistory(<<Item("loss", "3")>>, FALSE, 0, TRUE, TRUE),
     History(<<Item("acc", "5")>>, 1)}

PartialSettings == {DefaultSettings, [DefaultSettings EXCEPT !.x_shared = TRUE]}

InitPartial == InitWith(PartialSettings)

NextPartial ==
    \/ Send(PartialRecords, MaxPartialRecords)
    \/ HandleHistory
    \/ HandleRequestPartialHistory

SpecPartial == InitPartial /\ [][NextPartial]_vars

\* the places on the forward channel of the History records that were
\* forwarded while the i-th inbound record was handled
HistoriesAt(i) == {p \in HistoryAt : fwdAt[p] = i}

\* the record holds every item of the list
HoldsItems(record, items) ==
    \A n \in 1..Len(items) : \E k \in 1..Len(record.item) : record.item[k] = items[n]

\* the record holds internal items only
InternalOnly(record) ==
    \A k \in 1..Len(record.item) : HasUnderscorePrefix(record.item[k].key)

\* the i-th and the next inbound record are the same PartialHistory request
\* with flush=true
ReplayedFlush(i) ==
    /\ i + 1 <= Len(handled)
    /\ handled[i].req = "PartialHistory"
    /\ handled[i].hasAction /\ handled[i].flush
    /\ handled[i + 1] = [handled[i] EXCEPT !.uuid = handled[i + 1].uuid]

\* C21 as stated: the same PartialHistory request with flush=true handled
\* twice in a row gives, when it has items, one History record with the items
\* and a second one with internal items only, and one History record in total
\* when it has no items.
C21_ReplayGivesEmptySecond ==
    \A i \in 1..Len(handled) :
        ReplayedFlush(i) =>
            IF handled[i].item # <<>>
            THEN /\ \E p \in HistoriesAt(i) : HoldsItems(fwdChan[p], handled[i].item)
                 /\ Cardinality(HistoriesAt(i + 1)) = 1
                 /\ \A p \in HistoriesAt(i + 1) : InternalOnly(fwdChan[p])
            ELSE Cardinality(HistoriesAt(i) \cup HistoriesAt(i + 1)) = 1

\* a standalone History record was handled before the i-th inbound record:
\* the accumulator is the one handleHistory made, which has no flush callback
AfterStandalone(i) == \E j \in 1..(i - 1) : handled[j].kind = "History"

\* C21: when the same PartialHistory request with flush=true is handled twice
\* in a row, the second handling forwards one History record that holds the
\* request's items again when the request has items and no step that sync
\* mode checks; it forwards nothing when the request has such a step (it is
\* dropped as a step below the current one) or has no items, and neither
\* handling forwards anything after a standalone History record.
C21_ReplayFlushesAgain ==
    \A i \in 1..Len(handled) :
        ReplayedFlush(i) =>
            IF AfterStandalone(i)
            THEN HistoriesAt(i) \cup HistoriesAt(i + 1) = {}
            ELSE IF handled[i].hasStep /\ ~settings.x_shared
            THEN HistoriesAt(i + 1) = {}
            ELSE IF handled[i].item # <<>>
            THEN /\ Cardinality(HistoriesAt(i + 1)) = 1
                 /\ \A p \in HistoriesAt(i + 1) : HoldsItems(fwdChan[p], handled[i].item)
                 /\ \E p \in HistoriesAt(i) : HoldsItems(fwdChan[p], handled[i].item)
            ELSE HistoriesAt(i + 1) = {}

\* a request with items, flush=true and no step was handled twice in a row in
\* sync mode, and two History records were forwarded
C21_Witness ==
    /\ ~settings.x_shared
    /\ Len(handled) = 2
    /\ ReplayedFlush(1)
    /\ handled[1].item # <<>> /\ ~handled[1].hasStep
    /\ Cardinality(HistoryAt) = 2


----------------------------------------------------------------------------
(* Consolidation applied twice, under SpecHistory *)

\* the items of a record without the run time item that handleSummary appends
OwnUpdate(record) == SelectSeq(record.item, LAMBDA it : it.key # "_wandb")

\* the next step handles a History record, a Summary record or a
\* PartialHistory request that is the same as the record handled just before
Replayed ==
    /\ pc = "run" /\ inChan # <<>>
    /\ Len(handled') = Len(handled) + 1
    /\ Len(handled) >= 1
    /\ \/ Head(inChan).kind \in {"History", "Summary"}
       \/ Head(inChan).req = "PartialHistory"
    /\ [Head(inChan) EXCEPT !.uuid = 0, !.item = OwnUpdate(Head(inChan))]
           = [handled[Len(handled)] EXCEPT !.uuid = 0, !.item = OwnUpdate(handled[Len(handled)])]

\* consolidating the items of the next inbound record into the consolidated
\* summary twice gives the same map as consolidating them once
IdempotentHere ==
    inChan # <<>> =>
        Consolidate(Consolidate(summaryHandler.consolidatedSummary, Head(inChan).item),
                    Head(inChan).item)
            = Consolidate(summaryHandler.consolidatedSummary, Head(inChan).item)

\* C22 as stated: consolidation is idempotent, and handling the same history
\* items or the same summary update twice leaves the consolidated summary as
\* it was after the first time.
C22_ReplayLeavesSummary ==
    /\ []IdempotentHere
    /\ [][Replayed =>
            summaryHandler'.consolidatedSummary = summaryHandler.consolidatedSummary]_vars

\* the keys whose values the handler computes itself at each flush or update
ComputedKeys == {"_step", "_runtime", "_wandb"}

\* C22: consolidation is idempotent, and handling the same history items or
\* the same summary update twice leaves every key of the consolidated summary
\* as after the first time, but for the keys _step, _runtime and _wandb whose
\* values the handler computes anew; a replayed standalone History record
\* leaves the whole summary as it was.
C22_ReplayLeavesOwnKeys ==
    /\ []IdempotentHere
    /\ [][Replayed =>
            /\ DOMAIN summaryHandler'.consolidatedSummary = DOMAIN summaryHandler.consolidatedSummary
            /\ \A key \in DOMAIN summaryHandler.consolidatedSummary \ ComputedKeys :
                   summaryHandler'.consolidatedSummary[key]
                       = summaryHandler.consolidatedSummary[key]
            /\ Head(inChan).kind = "History" =>
                   summaryHandler'.consolidatedSummary = summaryHandler.consolidatedSummary]_vars

\* the same PartialHistory request was flushed twice in sync mode: the summary
\* holds its item as after the first time and the step of the second flush
C22_Witness ==
    /\ ~settings.x_shared
    /\ Len(handled) = 2
    /\ handled[1].req = "PartialHistory" /\ ~handled[1].hasStep
    /\ handled[2] = [handled[1] EXCEPT !.uuid = 2]
    /\ Cardinality(HistoryAt) = 2
    /\ summaryHandler.consolidatedSummary["loss"] = "1"
    /\ summaryHandler.consolidatedSummary["_step"] = "1"


----------------------------------------------------------------------------
(* Records and requests without a known tag, under Spec *)

\* the i-th inbound record has a nil or unknown record tag or request tag
NoTag(i) == handled[i].kind = "nil" \/ handled[i].req = "nil"

\* the state after the handler has aborted: the record it aborted on is the
\* last one it took, and no channel was closed
Aborted ==
    /\ Len(handled) >= 1
    /\ NoTag(Len(handled))
    /\ closeLog = <<>>

\* the handling of a record without a tag forwards nothing but what the
\* debouncer tick before the dispatch forwards, and answers nothing
AbortsAtOnce ==
    (pc = "run" /\ inChan # <<>> /\ Len(handled') = Len(handled) + 1
        /\ (Head(inChan).kind = "nil" \/ Head(inChan).req = "nil")) =>
        /\ fwdChan' = Dispatched.fwdChan
        /\ outChan' = outChan
        /\ pc' = "panicked"

\* after the abort no record is handled, forwarded or answered and no
\* channel is closed
StaysAborted ==
    pc = "panicked" => UNCHANGED <<handled, fwdChan, outChan, closeLog, pc>>

\* C23: on a record with a nil or unknown record tag, or a Request with a nil
\* or unknown request tag, the handler aborts: no later inbound record is
\* handled, nothing more is forwarded or answered, and neither the outbound
\* nor the forward channel is closed.
C23_AbortOnNilTag ==
    /\ [](pc = "panicked" <=> Aborted)
    /\ [](\A i \in 1..Len(handled) : NoTag(i) => i = Len(handled) /\ pc = "panicked")
    /\ [][AbortsAtOnce /\ StaysAborted]_vars

\* the handler aborted on its first record; another record is waiting in the
\* inbound channel, which the producer has closed, and no channel of the
\* handler is closed
C23_Witness ==
    /\ pc = "panicked"
    /\ Len(handled) = 1
    /\ NoTag(1)
    /\ inChan # <<>>
    /\ inClosed
    /\ closeLog = <<>>


----------------------------------------------------------------------------
(* Specification of the files the handler writes: the metadata file at run *)
(* start, the requirements file, the summary file at Defer FLUSH_SUM; each *)
(* write may succeed or fail                                               *)

FileRecords ==
    {WithReqResp([Req("RunStart") EXCEPT !.run = [start_time |-> 1, starting_step |-> 0]]),
     Req("PythonPackages"),
     Defer(FLUSH_SUM),
     Rec("Alert")}

FileSettings == {DefaultSettings, [DefaultSettings EXCEPT !.uploader = FALSE]}

InitFiles == InitWith(FileSettings)

NextFiles ==
    \/ Send(FileRecords, MaxFileRecords)
    \/ HandleForward
    \/ HandleRequestRunStart
    \/ HandleRequestPythonPackages
    \/ HandleRequestDefer

SpecFiles == InitFiles /\ [][NextFiles]_vars

\* a call with the name was made while the i-th inbound record was handled
CalledAt(i, name) == \E c \in 1..Len(calls) : calls[c].at = i /\ calls[c].name = name

\* a Files record naming the path was forwarded while the i-th inbound record
\* was handled
FilesForwardedAt(i, path) ==
    \E p \in 1..Len(fwdChan) :
        /\ fwdAt[p] = i
        /\ fwdChan[p].kind = "Files"
        /\ \E n \in 1..Len(fwdChan[p].files) : fwdChan[p].files[n] = path

\* the i-th inbound record was forwarded once
ForwardedOnce(i) ==
    Cardinality({p \in 1..Len(fwdChan) :
                    fwdAt[p] = i /\ fwdChan[p].kind = handled[i].kind
                                 /\ fwdChan[p].req = handled[i].req}) = 1

\* RunStart forwards the request and answers once, with an empty response,
\* and forwards the metadata file only when it was written
RunStartSwallows(i) ==
    /\ ForwardedOnce(i)
    /\ Cardinality(ResultsAt(i)) = 1
    /\ \A j \in ResultsAt(i) : outChan[j].response = EmptyResponse
    /\ FilesForwardedAt(i, "wandb-metadata.json") => CalledAt(i, "WriteFile wandb-metadata.json")

\* PythonPackages forwards the requirements file only when it was written
PackagesSwallows(i) ==
    FilesForwardedAt(i, "requirements.txt") => CalledAt(i, "WriteFile requirements.txt")

\* Defer FLUSH_SUM forwards the defer record, and asks for the upload of the
\* summary file only when it was written
FlushSumSwallows(i) ==
    /\ ForwardedOnce(i)
    /\ CalledAt(i, "uploader.UploadNow wandb-summary.json")
           => CalledAt(i, "WriteFile wandb-summary.json")

\* C24: a failed file write while RunStart, PythonPackages or Defer FLUSH_SUM
\* is handled never stops the dispatcher; RunStart still forwards the request
\* and sends its one empty response, the defer record is still forwarded, and
\* no Files record or upload is issued for a file whose write failed.
C24_WriteFailuresSwallowed ==
    /\ pc # "panicked"
    /\ \A i \in 1..Len(handled) :
           /\ handled[i].req = "RunStart" => RunStartSwallows(i)
           /\ handled[i].req = "PythonPackages" => PackagesSwallows(i)
           /\ handled[i].req = "Defer" /\ handled[i].state = FLUSH_SUM => FlushSumSwallows(i)


----------------------------------------------------------------------------
(* The flush that ends a step in sync mode, under SpecPartial *)

\* the next step handles a PartialHistory request outside shared mode whose
\* step is not below the current step
SyncAppend ==
    /\ Receives("Request", "PartialHistory")
    /\ Len(handled') = Len(handled) + 1
    /\ ~settings.x_shared
    /\ ~(Head(inChan).hasStep /\ Head(inChan).step < CurrentStep)

\* the step at which the items of the request are appended
AppendStep ==
    IF Head(inChan).hasStep /\ Head(inChan).step > CurrentStep
    THEN Head(inChan).step
    ELSE CurrentStep

\* the request has no step and no action, or its action has flush=true
FlushAsked ==
    \/ ~Head(inChan).hasStep /\ ~Head(inChan).hasAction
    \/ Head(inChan).hasAction /\ Head(inChan).flush

\* the accumulator hands what it flushes to the handler: it is not the one a
\* standalone History record left, which has no flush callback
HasCallback == ~activeHistory.exists \/ activeHistory.flush # "nil"

\* the History records the next step forwards for the step at which the
\* request's items are appended
FlushedAtAppendStep ==
    {k \in 1..Len(NewForwards) :
        NewForwards[k].kind = "History" /\ NewForwards[k].step = AppendStep}

\* C25: outside shared mode, after the items of a PartialHistory request that
\* is not dropped are appended, the accumulator is flushed and the current
\* step is incremented by exactly 1 if and only if the request has no step and
\* no action or its action has flush=true; otherwise nothing is flushed and
\* the step is not incremented.
C25_FlushEndsStep ==
    [][SyncAppend =>
        IF FlushAsked
        THEN /\ activeHistory'.step = AppendStep + 1
             /\ activeHistory'.values = EmptyMap
             /\ (HasCallback /\ Head(inChan).item # <<>>) =>
                    /\ Cardinality(FlushedAtAppendStep) = 1
                    /\ \A k \in FlushedAtAppendStep :
                           /\ k = Len(NewForwards)
                           /\ HoldsItems(NewForwards[k], Head(inChan).item)
        ELSE /\ activeHistory'.step = AppendStep
             /\ \A n \in 1..Len(Head(inChan).item) :
                    /\ Head(inChan).item[n].key \in DOMAIN activeHistory'.values
                    /\ activeHistory'.values[Head(inChan).item[n].key]
                           = Head(inChan).item[n].value_json
             /\ FlushedAtAppendStep = {}]_vars

\* a request with an action that has flush=false was kept, and the request
\* with no step and no action after it flushed both at step 0
C25_Witness ==
    /\ ~settings.x_shared
    /\ Len(handled) = 2
    /\ handled[1].req = "PartialHistory" /\ handled[1].hasAction /\ ~handled[1].flush
    /\ handled[2].req = "PartialHistory" /\ ~handled[2].hasAction /\ ~handled[2].hasStep
    /\ HistoriesAt(1) = {}
    /\ \E p \in HistoriesAt(2) :
           /\ fwdChan[p].step = 0
           /\ HoldsItems(fwdChan[p], handled[1].item \o handled[2].item)
    /\ activeHistory.step = 1


----------------------------------------------------------------------------
(* A request for a higher step in sync mode, under SpecPartial *)

\* the next step handles a PartialHistory request outside shared mode whose
\* step is above the current step
StepAhead ==
    /\ Receives("Request", "PartialHistory")
    /\ Len(handled') = Len(handled) + 1
    /\ ~settings.x_shared
    /\ Head(inChan).hasStep
    /\ Head(inChan).step > CurrentStep

\* the items of a forwarded History record before the _runtime and _step
\* items that flushHistory appends
UserItems(record) == SubSeq(record.item, 1, OwnItems(record) - 2)

\* the History records the next step forwards with the step
FlushedAt(step) ==
    {k \in 1..Len(NewForwards) :
        NewForwards[k].kind = "History" /\ NewForwards[k].step = step}

\* what was accumulated is forwarded as one record with the current step,
\* when there is something to forward and a callback to forward it
ResidueFlushed ==
    IF HasCallback /\ activeHistory.values # EmptyMap
    THEN /\ Cardinality(FlushedAt(CurrentStep)) = 1
         /\ \A k \in FlushedAt(CurrentStep) :
                ItemsOfMap(UserItems(NewForwards[k]), activeHistory.values)
    ELSE FlushedAt(CurrentStep) = {}

\* the items of the request are alone in the accumulator at the step of the
\* request, or alone in the record forwarded for that step
RequestAlone ==
    IF FlushAsked
    THEN /\ activeHistory'.step = Head(inChan).step + 1
         /\ (HasCallback /\ Head(inChan).item # <<>>) =>
                /\ Cardinality(FlushedAt(Head(inChan).step)) = 1
                /\ \A k \in FlushedAt(Head(inChan).step) :
                       /\ ItemsOfMap(UserItems(NewForwards[k]),
                                     Consolidate(EmptyMap, Head(inChan).item))
                       /\ \A j \in FlushedAt(CurrentStep) : j < k
    ELSE /\ activeHistory'.step = Head(inChan).step
         /\ activeHistory'.values = Consolidate(EmptyMap, Head(inChan).item)
         /\ FlushedAt(Head(inChan).step) = {}

----------------------------------------------------------------------------
(* Partial history in shared mode, under SpecPartial *)

\* the next step handles a PartialHistory request in shared mode
AsyncAppend ==
    /\ Receives("Request", "PartialHistory")
    /\ Len(handled') = Len(handled) + 1
    /\ settings.x_shared

\* the accumulator with the items of the request appended
Appended == Consolidate(activeHistory.values, Head(inChan).item)

\* the History records the next step forwards
NewHistories == {k \in 1..Len(NewForwards) : NewForwards[k].kind = "History"}

\* the record has no step and no _step item
Stepless(record) ==
    /\ ~record.hasStep
    /\ \A n \in 1..Len(record.item) : record.item[n].key # "_step"

\* C27: in shared mode every PartialHistory request appends its items whatever
\* its step; the accumulator is flushed exactly when the request has no action
\* or its action has flush=true; and the History records forwarded have no
\* step and no _step item.
C27_SharedModeFlush ==
    [][AsyncAppend =>
          /\ \A k \in NewHistories : Stepless(NewForwards[k])
          /\ IF ~Head(inChan).hasAction \/ Head(inChan).flush
             THEN /\ activeHistory'.values = EmptyMap
                  /\ (HasCallback /\ Appended # EmptyMap) =>
                         /\ Cardinality(NewHistories) = 1
                         /\ \A k \in NewHistories :
                                HoldsItems(NewForwards[k], MapItems(Appended))
             ELSE /\ activeHistory'.values = Appended
                  /\ NewHistories = {}]_vars

\* in shared mode a request with step 2 and no action was flushed, then a
\* request with step 1 was flushed as well, both without a step
C27_Witness ==
    /\ settings.x_shared
    /\ Len(handled) = 2
    /\ handled[1].req = "PartialHistory" /\ handled[1].hasStep
    /\ handled[1].step = 2 /\ ~handled[1].hasAction
    /\ handled[2].req = "PartialHistory" /\ handled[2].hasStep /\ handled[2].step = 1
    /\ \E p \in HistoriesAt(1) :
           HoldsItems(fwdChan[p], handled[1].item) /\ Stepless(fwdChan[p])
    /\ \E q \in HistoriesAt(2) :
           HoldsItems(fwdChan[q], handled[2].item) /\ Stepless(fwdChan[q])
    /\ activeHistory.values = EmptyMap


----------------------------------------------------------------------------
(* A standalone History record, under SpecPartial *)

\* the next step handles a History record with at least one item
StandaloneHistory ==
    /\ Receives("History", "")
    /\ Len(handled') = Len(handled) + 1
    /\ Head(inChan).item # <<>>

\* the record has the step and the items of the inbound record, followed by
\* internal items only
CarriesOwn(record, inbound) ==
    /\ record.hasStep = inbound.hasStep
    /\ record.step = StepNum(inbound)
    /\ Len(record.item) > Len(inbound.item)
    /\ SubSeq(record.item, 1, Len(inbound.item)) = inbound.item
    /\ \A n \in (Len(inbound.item) + 1)..Len(record.item) :
           record.item[n].key \in {"_runtime", "_step"}

\* the i-th inbound record is a PartialHistory request whose items were kept,
\* and the next inbound record is a History record
KeptThenReplaced(i) ==
    /\ i + 1 <= Len(handled)
    /\ handled[i].req = "PartialHistory"
    /\ handled[i].item # <<>>
    /\ HistoriesAt(i) = {}
    /\ handled[i + 1].kind = "History"

\* an item kept by the i-th record is in a later forwarded History record
\* only if a record handled after the i-th one brought the same item
KeptNeverForwarded(i) ==
    \A p \in HistoryAt : \A n \in 1..Len(handled[i].item) :
        (fwdAt[p] > i /\ HoldsItems(fwdChan[p], <<handled[i].item[n]>>)) =>
            \E j \in (i + 1)..fwdAt[p] :
                \E m \in 1..Len(handled[j].item) : handled[j].item[m] = handled[i].item[n]

\* C28: a standalone History record with at least one item forwards exactly
\* one History record, with the record's own step and items followed by the
\* internal items; the accumulator is replaced and holds no items afterwards,
\* and partial-history items that were kept in it are never forwarded.
C28_StandaloneHistory ==
    /\ [](\A i \in 1..Len(handled) : KeptThenReplaced(i) => KeptNeverForwarded(i))
    /\ [][StandaloneHistory =>
             /\ Cardinality(NewHistories) = 1
             /\ \A k \in NewHistories : CarriesOwn(NewForwards[k], Head(inChan))
             /\ activeHistory'.exists
             /\ activeHistory'.step = StepNum(Head(inChan))
             /\ activeHistory'.values = EmptyMap]_vars

\* items were kept without a flush, a History record came and was forwarded
\* with its own step and items, and the kept items are in no forwarded record
C28_Witness ==
    /\ Len(handled) = 2
    /\ KeptThenReplaced(1)
    /\ Cardinality(HistoryAt) = 1
    /\ \A p \in HistoryAt :
           /\ fwdAt[p] = 2
           /\ CarriesOwn(fwdChan[p], handled[2])
           /\ ~HoldsItems(fwdChan[p], handled[1].item)
    /\ activeHistory.values = EmptyMap
    /\ activeHistory.step = handled[2].step


----------------------------------------------------------------------------
(* Metric records by name and by glob, under SpecMetric *)

\* the next step handles a Metric record
MetricStep ==
    /\ Receives("Metric", "")
    /\ Len(handled') = Len(handled) + 1

\* the Metric records the next step forwards, in order
NewMetrics == SelectSeq(NewForwards, LAMBDA r : r.kind = "Metric")

\* the record is the synthesized definition of the key
SynthesizedFor(record, key) ==
    /\ record.kind = "Metric"
    /\ record.control.local
    /\ record.metric.name = key
    /\ record.metric.glob_name = ""

\* the record is the inbound record, as it came
Original(record) ==
    /\ record.metric = Head(inChan).metric
    /\ record.control = Head(inChan).control

\* the step metric of the inbound record is named and not a defined metric
StepMetricUnseen ==
    /\ Head(inChan).metric.step_metric # ""
    /\ Head(inChan).metric.step_metric \notin
           DOMAIN metricHandler.definedMetrics \cup {Head(inChan).metric.name}

\* a record with a name: registered, its step metric registered and announced
\* first when unseen, the record forwarded once
NamedMetricHandled ==
    LET metric == Head(inChan).metric
    IN  /\ metric.name \in DOMAIN metricHandler'.definedMetrics
        /\ metricHandler'.definedMetrics[metric.name] = metric
        /\ metricHandler'.globMetrics = metricHandler.globMetrics
        /\ IF StepMetricUnseen
           THEN /\ metric.step_metric \in DOMAIN metricHandler'.definedMetrics
                /\ metricHandler'.definedMetrics[metric.step_metric].name = metric.step_metric
                /\ Len(NewMetrics) = 2
                /\ SynthesizedFor(NewMetrics[1], metric.step_metric)
                /\ Original(NewMetrics[2])
           ELSE /\ DOMAIN metricHandler'.definedMetrics =
                       DOMAIN metricHandler.definedMetrics \cup {metric.name}
                /\ Len(NewMetrics) = 1
                /\ Original(NewMetrics[1])

\* a record with a glob: registered among the globs and forwarded once
GlobMetricHandled ==
    /\ \E i \in 1..Len(metricHandler'.globMetrics) :
           metricHandler'.globMetrics[i] = Head(inChan).metric
    /\ metricHandler'.definedMetrics = metricHandler.definedMetrics
    /\ Len(NewMetrics) = 1
    /\ Original(NewMetrics[1])

\* C29: a Metric record with a name is registered in the defined metrics and
\* forwarded exactly once; when its step metric is named and not yet defined,
\* the step metric is registered and one synthesized Metric record with
\* local=true is forwarded before the record, otherwise none is; a Metric
\* record with a glob is registered in the glob metrics and forwarded exactly
\* once with no synthesized record.
C29_MetricRegistered ==
    [][MetricStep =>
          /\ (Head(inChan).metric.glob_name = "" /\ Head(inChan).metric.name # "")
                 => NamedMetricHandled
          /\ Head(inChan).metric.glob_name # "" => GlobMetricHandled]_vars

\* a glob was registered, then the same named metric came twice: its step
\* metric was announced before it the first time and not the second time
C29_Witness ==
    /\ Len(handled) = 3
    /\ handled[1].kind = "Metric" /\ handled[1].metric.glob_name # ""
    /\ handled[2].kind = "Metric" /\ handled[2].metric.name = "train/loss"
    /\ handled[3].kind = "Metric" /\ handled[3].metric = handled[2].metric
    /\ Len(metricHandler.globMetrics) = 1
    /\ DOMAIN metricHandler.definedMetrics = {"train/loss", "acc"}
    /\ \E p \in 1..Len(fwdChan) :
           /\ fwdAt[p] = 2 /\ fwdAt[p + 1] = 2
           /\ fwdChan[p].kind = "Metric" /\ fwdChan[p].control.local
           /\ fwdChan[p].metric.name = "acc"
           /\ fwdChan[p + 1].metric = handled[2].metric
           /\ ~fwdChan[p + 1].control.local
    /\ Cardinality({p \in 1..Len(fwdChan) : fwdChan[p].kind = "Metric"}) = 4


----------------------------------------------------------------------------
(* Specification of globs: overlapping glob definitions, a glob over the   *)
(* internal keys, and the history that is matched against them             *)

GlobRecords ==
    {[Rec("Metric") EXCEPT !.metric = [NoMetric EXCEPT !.glob_name = "train/l*"]],
     [Rec("Metric") EXCEPT !.metric = [NoMetric EXCEPT !.glob_name = "train/*",
                                                       !.step_metric = "train/step",
                                                       !.step_sync = TRUE]],
     [Rec("Metric") EXCEPT !.metric = [NoMetric EXCEPT !.glob_name = "_*"]],
     PartialHistory(<<Item("train/loss", "1")>>, FALSE, 0, FALSE, FALSE),
     PartialHistory(<<Item("train/loss", "2"), Item("train/step", "4")>>, FALSE, 0, FALSE, FALSE),
     PartialHistory(<<Item("loss", "1")>>, FALSE, 0, FALSE, FALSE)}

InitGlob == InitWith(MetricSettings)

NextGlob ==
    \/ Send(GlobRecords, MaxGlobRecords)
    \/ HandleMetric
    \/ HandleRequestPartialHistory

SpecGlob == InitGlob /\ [][NextGlob]_vars

\* the next step handles a PartialHistory request
PartialStep ==
    /\ Receives("Request", "PartialHistory")
    /\ Len(handled') = Len(handled) + 1

\* the keys of the items of a flushed record that have no exact definition,
\* do not start with an underscore and match a glob
GlobKeys(record) ==
    {key \in {record.item[n].key : n \in 1..OwnItems(record)} :
        /\ ~HasUnderscorePrefix(key)
        /\ key \notin DOMAIN metricHandler.definedMetrics
        /\ HasMatchingGlob(Dispatched, key)}

\* the metric made for the key from the first glob that matches it
FirstGlobMetric(key) == createMatchingGlobMetric(Dispatched, key)

\* the names of the Metric records the next step forwards
NewMetricNames == {NewMetrics[k].metric.name : k \in 1..Len(NewMetrics)}

\* the step metrics that the new definitions of the keys name and that were
\* not defined before
NewStepNames(keys) ==
    {metricHandler'.definedMetrics[key].step_metric : key \in keys}
        \ ({""} \cup DOMAIN metricHandler.definedMetrics)

\* each of the keys has a definition after the step: the one made from the
\* first matching glob, or the plain one made for it as the step metric of a
\* key flushed before it
KeysDefined(keys) ==
    \A key \in keys :
        /\ key \in DOMAIN metricHandler'.definedMetrics
        /\ \/ metricHandler'.definedMetrics[key] = FirstGlobMetric(key)
           \/ /\ metricHandler'.definedMetrics[key] = [NoMetric EXCEPT !.name = key]
              /\ \E other \in keys \ {key} :
                     metricHandler'.definedMetrics[other].step_metric = key

\* the Metric records of the step are the synthesized definitions of the
\* names, one each, and the names are defined afterwards
Synthesized(names) ==
    /\ NewMetricNames = names
    /\ Len(NewMetrics) = Cardinality(names)
    /\ \A k \in 1..Len(NewMetrics) :
           /\ NewMetrics[k].control.local
           /\ NewMetrics[k].metric.glob_name = ""
           /\ NewMetrics[k].metric =
                  metricHandler'.definedMetrics[NewMetrics[k].metric.name]
    /\ DOMAIN metricHandler'.definedMetrics =
           DOMAIN metricHandler.definedMetrics \cup names
    /\ \A key \in DOMAIN metricHandler.definedMetrics :
           metricHandler'.definedMetrics[key] = metricHandler.definedMetrics[key]
    /\ metricHandler'.globMetrics = metricHandler.globMetrics

GlobsResolved(record) ==
    /\ KeysDefined(GlobKeys(record))
    /\ Synthesized(GlobKeys(record) \cup NewStepNames(GlobKeys(record)))

\* C30 as stated: a flush forwards one synthesized Metric record for each key
\* that has no exact definition, does not start with an underscore and matches
\* a glob, and no other Metric record.
C30_OneRecordPerKey ==
    [][PartialStep =>
          \A k \in NewHistories :
              Len(NewMetrics) = Cardinality(GlobKeys(NewForwards[k]))]_vars

\* C30: when a flushed item's key does not start with an underscore, has no
\* exact definition and matches a glob, the first matching glob in insertion
\* order gives a defined metric named by the key, which is registered and
\* forwarded as one synthesized Metric record with local=true; when that
\* metric names a step metric that is not defined, the step metric is
\* registered and forwarded as a synthesized record as well. A later flush of
\* the key forwards no Metric record, and keys that start with an underscore
\* or match no definition register nothing and forward nothing.
C30_GlobMatchDefines ==
    [][PartialStep =>
          /\ Cardinality(NewHistories) = 1
          /\ \A k \in NewHistories : GlobsResolved(NewForwards[k])]_vars

\* two globs match train/loss and the one registered first has no step
\* metric: the key got that definition and one synthesized record, and the
\* second flush of the key forwarded no Metric record
C30_Witness ==
    /\ Len(handled) = 4
    /\ handled[1].metric.glob_name = "train/l*"
    /\ handled[2].metric.glob_name = "train/*"
    /\ handled[3].req = "PartialHistory" /\ handled[3].item = <<Item("train/loss", "1")>>
    /\ handled[4] = [handled[3] EXCEPT !.uuid = 4]
    /\ DOMAIN metricHandler.definedMetrics = {"train/loss"}
    /\ metricHandler.definedMetrics["train/loss"] = [NoMetric EXCEPT !.name = "train/loss"]
    /\ \E p \in 1..Len(fwdChan) :
           /\ fwdAt[p] = 3
           /\ fwdChan[p].kind = "Metric" /\ fwdChan[p].control.local
           /\ fwdChan[p].metric.name = "train/loss"
    /\ \A p \in 1..Len(fwdChan) : fwdAt[p] = 4 => fwdChan[p].kind = "History"
    /\ HistoriesAt(4) # {}


----------------------------------------------------------------------------
(* Defer FLUSH_SUM outside sync mode, under SpecDefer *)

\* the next step handles a Defer request of state FLUSH_SUM outside sync mode
FlushSumStep ==
    /\ Receives("Request", "Defer")
    /\ Head(inChan).state = FLUSH_SUM
    /\ Len(handled') = Len(handled) + 1
    /\ ~settings.x_sync

\* the runtime item handleSummary adds in this phase
RuntimeItem == Item("_wandb", RuntimeJson(TimerElapsed(Dispatched)))

\* the summary delta at the time of the flush
DeltaAtFlushSum == Consolidate(Dispatched.summaryHandler.summaryDelta, <<RuntimeItem>>)

\* the calls on collaborators the next step makes
NewCalls == SubSeq(calls', Len(calls) + 1, Len(calls'))

\* the names of those calls, in order
NewCallNames == [k \in 1..Len(NewCalls) |-> NewCalls[k].name]

\* the delta is forwarded as a Summary record, then the Defer request, and
\* nothing else after the tick
SummaryThenDefer ==
    /\ Len(fwdChan') = Len(Dispatched.fwdChan) + 2
    /\ fwdChan'[Len(fwdChan') - 1].kind = "Summary"
    /\ fwdChan'[Len(fwdChan') - 1].item = MapItems(DeltaAtFlushSum)
    /\ fwdChan'[Len(fwdChan')].req = "Defer"
    /\ summaryHandler'.summaryDelta = EmptyMap

\* the call that tells the uploader, when there is an uploader
UploadCalls ==
    IF settings.uploader THEN <<"uploader.UploadNow wandb-summary.json">> ELSE <<>>

\* the file is written after the Summary record was forwarded, with the whole
\* consolidated summary, and the uploader is told after that, both before
\* the Defer request is forwarded; without the write when the write fails
FileAfterSummary ==
    /\ \A k \in 1..Len(NewCalls) :
           /\ NewCalls[k].fwdLen = Len(fwdChan') - 1
           /\ NewCalls[k].name = "WriteFile wandb-summary.json" =>
                  /\ NewCalls[k].data = summaryHandler'.consolidatedSummary
                  /\ "_wandb" \in DOMAIN NewCalls[k].data
                  /\ NewCalls[k].data["_wandb"] = RuntimeItem.value_json
    /\ summaryHandler'.consolidatedSummary =
           Consolidate(summaryHandler.consolidatedSummary, <<RuntimeItem>>)
    /\ NewCallNames \in {<<"WriteFile wandb-summary.json">> \o UploadCalls, UploadCalls}

\* C31: at Defer FLUSH_SUM outside sync mode the summary delta, with the
\* _wandb runtime item of this phase, is forwarded as a Summary record
\* whatever the rate limiter holds; this is before the summary file is
\* written; the file holds the whole consolidated summary of that moment; the
\* uploader, when there is one, is then told to upload the file; and the
\* delta is empty when the Defer request is forwarded.
C31_FlushSumOrder == [][FlushSumStep => SummaryThenDefer /\ FileAfterSummary]_vars

\* a summary update was handled with the only token, then FLUSH_SUM came with
\* no token left: the update and the runtime were forwarded as a Summary
\* record, the file was written with both and the uploader was told
C31_Witness ==
    /\ ~settings.x_sync /\ settings.uploader
    /\ Len(handled) = 2
    /\ handled[1].kind = "Summary"
    /\ handled[2].req = "Defer" /\ handled[2].state = FLUSH_SUM
    /\ summaryHandler.tokens = 0
    /\ Len(fwdChan) >= 2
    /\ fwdAt[Len(fwdChan) - 1] = 2
    /\ fwdChan[Len(fwdChan) - 1].kind = "Summary"
    /\ HoldsItems(fwdChan[Len(fwdChan) - 1],
                  <<Item("acc", "2"), Item("_wandb", RuntimeJson(0))>>)
    /\ fwdChan[Len(fwdChan)].req = "Defer"
    /\ Len(calls) = 2
    /\ calls[1].name = "WriteFile wandb-summary.json"
    /\ calls[1].data = summaryHandler.consolidatedSummary
    /\ DOMAIN calls[1].data = {"acc", "_wandb"}
    /\ calls[1].fwdLen = Len(fwdChan) - 1
    /\ calls[2].name = "uploader.UploadNow wandb-summary.json"
    /\ summaryHandler.summaryDelta = EmptyMap


----------------------------------------------------------------------------
(* Specification of the run start: a RunStart request, Pause and Resume    *)
(* requests and the Defer request that stops the system monitor, with code *)
(* saving, git and the system statistics switched on and off               *)

RunRecords ==
    {WithReqResp([Req("RunStart") EXCEPT !.run = [start_time |-> 1, starting_step |-> 0]]),
     Req("Pause"),
     Req("Resume"),
     Defer(FLUSH_STATS)}

RunSettings ==
    {DefaultSettings,
     [DefaultSettings EXCEPT !.save_code = FALSE],
     [DefaultSettings EXCEPT !.disable_git = TRUE],
     [DefaultSettings EXCEPT !.x_disable_stats = TRUE]}

InitRun == InitWith(RunSettings)

NextRun ==
    \/ Send(RunRecords, MaxRunRecords)
    \/ HandleRequestRunStart
    \/ HandleRequestPause
    \/ HandleRequestResume
    \/ HandleRequestDefer

SpecRun == InitRun /\ [][NextRun]_vars

\* the places on the forward channel of what was forwarded while the i-th
\* inbound record was handled
PlacesAt(i) == {p \in 1..Len(fwdChan) : fwdAt[p] = i}

\* the i-th inbound record is a RunStart request handled with a repository
\* at hand and git not disabled; the file operations of one step succeed or
\* fail together, and the written metadata file shows that they succeeded
RunStartWithRepo(i) ==
    /\ handled[i].req = "RunStart"
    /\ ~settings.disable_git
    /\ CalledAt(i, "WriteFile wandb-metadata.json")

\* the Files records of the step come after the RunStart request
FilesAfterRunStart(i) ==
    \A p \in PlacesAt(i) :
        fwdChan[p].kind = "Files" =>
            \E q \in PlacesAt(i) : q < p /\ fwdChan[q].req = "RunStart"

\* C32: on RunStart, whenever git is not disabled and a repository is
\* available, whatever the save-code setting, a Files record for diff.patch
\* and, with an upstream, for the diff against it is forwarded, after the
\* RunStart request and with one empty response for the request.
C32_PatchesSaved ==
    \A i \in 1..Len(handled) :
        RunStartWithRepo(i) =>
            /\ FilesForwardedAt(i, "diff.patch")
            /\ FilesForwardedAt(i, "diff_sha.patch")
            /\ FilesAfterRunStart(i)
            /\ ForwardedOnce(i)
            /\ Cardinality(ResultsAt(i)) = 1


----------------------------------------------------------------------------
(* Specification of the exit: a run that is started, paused and resumed    *)
(* while time passes, and its Exit record, in normal and in sync mode      *)

ExitRecords ==
    {WithReqResp([Req("RunStart") EXCEPT !.run = [start_time |-> 1, starting_step |-> 0]]),
     Req("Pause"),
     Req("Resume"),
     Rec("Exit")}

ExitSettings == {DefaultSettings, [DefaultSettings EXCEPT !.x_sync = TRUE]}

InitExit == InitWith(ExitSettings)

NextExit ==
    \/ Send(ExitRecords, MaxExitRecords)
    \/ Tick
    \/ HandleRequestRunStart
    \/ HandleRequestPause
    \/ HandleRequestResume
    \/ HandleExit

SpecExit == InitExit /\ [][NextExit]_vars

\* the next step handles an Exit record
ExitStep ==
    /\ Receives("Exit", "")
    /\ Len(handled') = Len(handled) + 1

\* the seconds the run was not paused, at the time the record is handled
ElapsedNow == TimerElapsed(Dispatched)

\* the Exit records the next step forwards
NewExits == SelectSeq(NewForwards, LAMBDA r : r.kind = "Exit")

\* the timer is paused, the record is forwarded once with the runtime and
\* always_send, local in sync mode only, and outside sync mode the runtime is
\* in the consolidated summary and in the delta
ExitHandled ==
    /\ timer'.isStarted => timer'.isPaused
    /\ timer'.isStarted => timer'.accumulated = ElapsedNow
    /\ Len(NewExits) = 1
    /\ NewExits[1].runtime = ElapsedNow
    /\ NewExits[1].control.always_send
    /\ NewExits[1].control.local = settings.x_sync
    /\ IF settings.x_sync
       THEN /\ summaryHandler'.consolidatedSummary = summaryHandler.consolidatedSummary
            /\ summaryHandler'.summaryDelta = Dispatched.summaryHandler.summaryDelta
       ELSE /\ summaryHandler'.consolidatedSummary =
                   Put(summaryHandler.consolidatedSummary, "_wandb", RuntimeJson(ElapsedNow))
            /\ summaryHandler'.summaryDelta =
                   Put(Dispatched.summaryHandler.summaryDelta, "_wandb", RuntimeJson(ElapsedNow))

\* the Summary records the next step forwards
NewSummaries == SelectSeq(NewForwards, LAMBDA r : r.kind = "Summary")

\* a runtime that waits in the delta is in the next Summary record forwarded
RuntimeInNextSummary ==
    ("_wandb" \in DOMAIN summaryHandler.summaryDelta /\ Len(NewSummaries) > 0) =>
        HoldsItems(NewSummaries[1],
                   <<Item("_wandb", summaryHandler.summaryDelta["_wandb"])>>)

\* the seconds the timer reports do not grow while it is paused
PausedKeepsTime ==
    (timer.isStarted /\ timer.isPaused /\ timer' = timer) =>
        TimerElapsed([H EXCEPT !.now = now']) = TimerElapsed(H)

----------------------------------------------------------------------------
(* The order of metric definitions and history, under SpecGlob *)

\* the places among the new records before the k-th
Before(k) == 1..(k - 1)

\* every Metric record of the step comes before the History record at k, and
\* each glob-matched key of that record has its definition among them
DefinitionsFirst(k) ==
    /\ \A j \in 1..Len(NewForwards) : NewForwards[j].kind = "Metric" => j < k
    /\ \A key \in GlobKeys(NewForwards[k]) :
           \E j \in Before(k) : SynthesizedFor(NewForwards[j], key)
    /\ \A key \in NewStepNames(GlobKeys(NewForwards[k])) :
           \E j \in Before(k) : SynthesizedFor(NewForwards[j], key)

\* C34: when the flush of a History record creates a defined metric from a
\* glob match, or registers a step metric for it, the synthesized Metric
\* records are on the forward channel before that History record: no history
\* item of a glob-matched key is forwarded before the definition made for it.
C34_DefinitionBeforeHistory ==
    [][PartialStep => \A k \in NewHistories : DefinitionsFirst(k)]_vars

\* the glob with a step metric was registered and train/loss was flushed:
\* the definitions of train/step and train/loss are on the channel, in that
\* order, before the History record that holds train/loss
C34_Witness ==
    /\ Len(handled) = 2
    /\ handled[1].metric.glob_name = "train/*"
    /\ handled[2].req = "PartialHistory"
    /\ \E p, q, r \in PlacesAt(2) :
           /\ p < q /\ q < r
           /\ fwdChan[p].kind = "Metric" /\ fwdChan[p].control.local
           /\ fwdChan[p].metric.name = "train/step"
           /\ fwdChan[q].kind = "Metric" /\ fwdChan[q].control.local
           /\ fwdChan[q].metric.name = "train/loss"
           /\ fwdChan[r].kind = "History"
           /\ HoldsItems(fwdChan[r], <<Item("train/loss", "1")>>)


----------------------------------------------------------------------------
(* Partial history after a standalone History record, under SpecPartial *)

\* the flush condition of the mode for a PartialHistory request
FlushCondition(request) ==
    IF settings.x_shared THEN ~request.hasAction \/ request.flush
    ELSE WantsFlush(request)

\* the record after the i-th, a History record, is a PartialHistory request
\* with items that asks for a flush and whose step is not below the step the
\* History record left
FlushAfterStandalone(i) ==
    /\ i + 1 <= Len(handled)
    /\ handled[i].kind = "History"
    /\ handled[i + 1].req = "PartialHistory"
    /\ handled[i + 1].item # <<>>
    /\ FlushCondition(handled[i + 1])
    /\ \/ settings.x_shared
       \/ ~handled[i + 1].hasStep
       \/ handled[i + 1].step >= StepNum(handled[i])

\* C35: a standalone History record does not disable partial history: a
\* PartialHistory request after it that asks for a flush and is no step
\* regression has a History record with its items forwarded.
C35_PartialHistoryAfterStandalone ==
    \A i \in 1..Len(handled) :
        FlushAfterStandalone(i) =>
            \E p \in HistoriesAt(i + 1) : HoldsItems(fwdChan[p], handled[i + 1].item)


----------------------------------------------------------------------------
(* The system monitor, under SpecRun *)

\* the places in the log of calls where the system monitor is started
MonitorStarts == {c \in 1..Len(calls) : calls[c].name = "systemMonitor.Do"}

\* the i-th inbound record is the Defer request that stops the monitor
StatsFlushed(i) == handled[i].req = "Defer" /\ handled[i].state = FLUSH_STATS

\* C36: the system monitor is never started where it must stay off: not when
\* x_disable_stats is set, and not after Defer FLUSH_STATS has stopped it,
\* whatever records come, Pause and Resume requests included.
C36_MonitorStaysOff ==
    /\ settings.x_disable_stats => MonitorStarts = {}
    /\ \A i \in 1..Len(handled) : \A c \in MonitorStarts :
           StatsFlushed(i) => calls[c].at < i

====
